---- MODULE Spec2Model ----
(***************************************************************************)
(* Verification model of manuai's query-serving core.                      *)
(*                                                                         *)
(*   Part I   DatabasePool and DatabaseOptimizer.get_cursor                *)
(*            (src/manuai/database_optimizer.py)                           *)
(*   Part II  QueryResultCache, SchemaCache (database_optimizer.py) and    *)
(*            ComplexityCache (src/manuai/optimizations.py)                *)
(*                                                                         *)
(* Time is a discrete clock `now`.  Computation takes no time: the clock   *)
(* advances only when every thread is idle, using a connection, asleep in  *)
(* time.sleep or blocked on a lock, so every delay the model shows is a    *)
(* delay the code itself spends sleeping or blocked.                       *)
(***************************************************************************)
EXTENDS Integers, Sequences, FiniteSets, TLC

(***************************************************************************)
(* Bounds of the model                                                     *)
(***************************************************************************)
NThreads == 2
MaxConnections == 1
Timeout == 2
MaxTime == 4
MaxConnId == 2

Threads == 1..NThreads

(* Python's None, for a lock nobody owns, a caller without a connection    *)
(* and a getter's empty result                                             *)
None == 0
NoThread == None
NoConn == None

(* time.sleep(0.01) in the wait loop: one clock unit *)
SleepTicks == 1

VARIABLE now              \* time.time() / datetime.now()

VARIABLES
    pool,                  \* DatabasePool.pool: list of idle connections
    in_use,                \* DatabasePool.in_use: set of loaned connections
    created_connections,   \* DatabasePool.created_connections
    lock,                  \* owner of DatabasePool.lock, NoThread when free
    nextId,                \* identity of the next connection sqlite3.connect returns
    pc,                    \* per thread: where it is
    held,                  \* per thread: the connection get_connection returned to it
    arg,                   \* per thread: argument of its return_connection call
    callStart,             \* per thread: time its get_connection call began
    start_time,            \* per thread: local start_time of the wait loop
    wakeAt,                \* per thread: end of its current time.sleep
    relStart,              \* per thread: time its return_connection call began
    scoped,                \* per thread: TRUE while inside a get_cursor scope
    served                 \* how get_connection last got past line 62:
                           \* "idle" (line 40), "new" (line 46) or "wait"

poolVars == <<pool, in_use, created_connections, lock, nextId, pc, held,
              arg, callStart, start_time, wakeAt, relStart, scoped, served>>

VARIABLES
    cls,                   \* class of the cache object the threads share
    cache,                 \* its self.cache: the entries in dictionary order
    cacheLock,             \* owner of its self.lock, NoThread when free
    cpc,                   \* per thread: where it is inside a SchemaCache getter
    ckey,                  \* per thread: the key that getter looks up
    cent,                  \* per thread: the (timestamp, value) it read
    last,                  \* the most recent completed cache operation
    accessOrder            \* keys present, least recently accessed first

cacheVars == <<cls, cache, cacheLock, cpc, ckey, cent, last, accessOrder>>

VARIABLES
    stats,                 \* DatabaseOptimizer._stats: hits, misses, executed
    opc,                   \* per thread: where it is in execute_cached_query
    oq,                    \* per thread: the statement of its call
    oconn,                 \* per thread: the connection its scope was given
    osent,                 \* per thread: times its call ran cursor.execute
    oexc,                  \* per thread: what left the with block
    oval,                  \* per thread: the rows cursor.fetchall returned
    ncalls,                \* execute_cached_query calls begun so far
    olast                  \* the most recent completed execute_cached_query

optVars == <<stats, opc, oq, oconn, osent, oexc, oval, ncalls, olast>>

VARIABLES
    log_file,              \* content of logs/model_performance.json
    write_errors,          \* times _save_metrics printed "Error saving metrics"
    metrics,               \* PerformanceMonitor.metrics of the router's monitor
    current_threshold,     \* ThresholdCalibrator.current_threshold
    calibration_history,   \* ThresholdCalibrator.calibration_history
    threshold,             \* DynamicComplexityRouter.threshold
    last_calibration,      \* DynamicComplexityRouter._last_calibration
    rpc,                   \* where the get_appropriate_model call in progress is
    rquery,                \* its query
    rscore,                \* its complexity_score
    rmodel,                \* its selected_model
    rsize,                 \* the length of the selections list when it began
    clast,                 \* the most recent completed suggest_threshold
    rlast                  \* the most recent completed get_appropriate_model

routerVars == <<log_file, write_errors, metrics, current_threshold, calibration_history,
                threshold, last_calibration, rpc, rquery, rscore, rmodel,
                rsize, clast, rlast>>

(***************************************************************************)
(* How the analyzer, the monitor, a shared router and the pipeline are     *)
(* used (src/manuai/optimizations.py)                                      *)
(***************************************************************************)
VARIABLES
    alast,                 \* the most recent completed analyze_complexity
    mlast                  \* the most recent completed PerformanceMonitor call

analysisVars == <<alast, mlast>>

VARIABLES
    tpc,                   \* per request on a shared router: where its get_appropriate_model is
    tq,                    \* per request: its query
    tnow,                  \* per request: the datetime.now() it read
    invoked                \* the times at which suggest_threshold was invoked

requestVars == <<tpc, tq, tnow, invoked>>

VARIABLES
    messages,              \* prune_conversation_context: the messages passed
    max_messages,          \* its max_messages
    pruned                 \* what it returned

pruneVars == <<messages, max_messages, pruned>>

VARIABLES
    query_complexity,      \* optimize_model_params: the score passed, in tenths
    provider,              \* its provider
    params                 \* what it returned

paramVars == <<query_complexity, provider, params>>

VARIABLES
    optimizer,             \* the module's _optimizer: None or the instance
    optimizer_lock,        \* _optimizer_lock: its owner
    instances,             \* how many DatabaseOptimizer objects were constructed
    gpc,                   \* per thread: where its get_optimizer call is
    gret,                  \* per thread: what its last get_optimizer call returned
    gcalls,                \* per thread: its completed get_optimizer calls
    contended              \* the threads that found _optimizer unset before locking

singletonVars == <<optimizer, optimizer_lock, instances, gpc, gret, gcalls, contended>>

usageVars == <<analysisVars, requestVars, pruneVars, paramVars, singletonVars>>

vars == <<now, poolVars, cacheVars, optVars, routerVars, usageVars>>

nonPoolVars == <<cacheVars, optVars, routerVars, usageVars>>
nonCacheVars == <<poolVars, optVars, routerVars, usageVars>>

(***************************************************************************)
(* Part I: DatabasePool                                                    *)
(***************************************************************************)
Last(s) == s[Len(s)]
Front(s) == SubSeq(s, 1, Len(s) - 1)
Range(s) == {s[i] : i \in DOMAIN s}

InitPool ==
    /\ pool = <<>>
    /\ in_use = {}
    /\ created_connections = 0
    /\ lock = NoThread
    /\ nextId = 1
    /\ pc = [t \in Threads |-> "idle"]
    /\ held = [t \in Threads |-> NoConn]
    /\ arg = [t \in Threads |-> NoConn]
    /\ callStart = [t \in Threads |-> 0]
    /\ start_time = [t \in Threads |-> 0]
    /\ wakeAt = [t \in Threads |-> 0]
    /\ relStart = [t \in Threads |-> 0]
    /\ scoped = [t \in Threads |-> FALSE]
    /\ served = "none"

(* A caller invokes pool.get_connection(): it reaches `with self.lock`. *)
get_connection_call(t) ==
    /\ pc[t] \in {"idle", "holding"}
    /\ ~scoped[t]
    /\ pc' = [pc EXCEPT ![t] = "acq"]
    /\ held' = [held EXCEPT ![t] = NoConn]
    /\ callStart' = [callStart EXCEPT ![t] = now]
    /\ UNCHANGED <<pool, in_use, created_connections, lock, nextId, now, arg,
                   start_time, wakeAt, relStart, scoped>>
    /\ UNCHANGED served
    /\ UNCHANGED nonPoolVars

(* The variant that hands out the last idle connection and leaves it in   *)
(* the idle list                                                           *)
PopIdle_keep(t) ==
    /\ pool' = pool
    /\ in_use' = in_use \cup {Last(pool)}
    /\ held' = [held EXCEPT ![t] = Last(pool)]
    /\ pc' = [pc EXCEPT ![t] = "holding"]

(* pool.pop(): the last element of the idle list *)
PopIdle(t) ==
    /\ pool' = Front(pool)
    /\ in_use' = in_use \cup {Last(pool)}
    /\ held' = [held EXCEPT ![t] = Last(pool)]
    /\ pc' = [pc EXCEPT ![t] = "holding"]

(* The variant whose cap test is off by one: `<=` for `<` on line 45 *)
get_connection_enter_over_cap(t) ==
    /\ pc[t] = "acq"
    /\ lock = NoThread
    /\ IF pool # <<>>
       THEN /\ PopIdle(t)
            /\ UNCHANGED <<created_connections, lock, nextId, start_time, wakeAt>>
       ELSE IF created_connections <= MaxConnections
       THEN /\ nextId <= MaxConnId
            /\ created_connections' = created_connections + 1
            /\ in_use' = in_use \cup {nextId}
            /\ held' = [held EXCEPT ![t] = nextId]
            /\ nextId' = nextId + 1
            /\ pc' = [pc EXCEPT ![t] = "holding"]
            /\ UNCHANGED <<pool, lock, start_time, wakeAt>>
       ELSE /\ lock' = t
            /\ start_time' = [start_time EXCEPT ![t] = now]
            /\ wakeAt' = [wakeAt EXCEPT ![t] = now]
            /\ pc' = [pc EXCEPT ![t] = "wait"]
            /\ UNCHANGED <<pool, in_use, created_connections, nextId, held>>
    /\ served' = IF pool # <<>> THEN "idle"
                  ELSE IF created_connections <= MaxConnections THEN "new"
                  ELSE "wait"
    /\ callStart' = [callStart EXCEPT ![t] = IF pc'[t] = "wait" THEN @ ELSE 0]
    /\ UNCHANGED <<now, arg, relStart, scoped>>
    /\ UNCHANGED nonPoolVars

(* get_connection, lines 37-62: the lock is acquired and the body runs up  *)
(* to the first return or to the start of the wait loop.  The lock is      *)
(* released by the return; it stays held when the wait loop is entered.    *)
get_connection_enter(t) ==
    /\ pc[t] = "acq"
    /\ lock = NoThread
    /\ IF pool # <<>>
       THEN /\ PopIdle(t)
            /\ UNCHANGED <<created_connections, lock, nextId, start_time, wakeAt>>
       ELSE IF created_connections < MaxConnections
       THEN /\ nextId <= MaxConnId
            /\ created_connections' = created_connections + 1
            /\ in_use' = in_use \cup {nextId}
            /\ held' = [held EXCEPT ![t] = nextId]
            /\ nextId' = nextId + 1
            /\ pc' = [pc EXCEPT ![t] = "holding"]
            /\ UNCHANGED <<pool, lock, start_time, wakeAt>>
       ELSE /\ lock' = t
            /\ start_time' = [start_time EXCEPT ![t] = now]
            /\ wakeAt' = [wakeAt EXCEPT ![t] = now]
            /\ pc' = [pc EXCEPT ![t] = "wait"]
            /\ UNCHANGED <<pool, in_use, created_connections, nextId, held>>
    /\ served' = IF pool # <<>> THEN "idle"
                  ELSE IF created_connections < MaxConnections THEN "new"
                  ELSE "wait"
    /\ callStart' = [callStart EXCEPT ![t] = IF pc'[t] = "wait" THEN @ ELSE 0]
    /\ UNCHANGED <<now, arg, relStart, scoped>>
    /\ UNCHANGED nonPoolVars

(* One evaluation of the wait loop, lines 63-70, made while holding the    *)
(* lock: the loop test, the look at the idle list, then either time.sleep  *)
(* or, when the test fails, the raise that leaves the with block.          *)
get_connection_wait(t) ==
    /\ pc[t] = "wait"
    /\ lock = t
    /\ now >= wakeAt[t]
    /\ IF now - start_time[t] < Timeout
       THEN IF pool # <<>>
            THEN /\ PopIdle(t)
                 /\ lock' = NoThread
                 /\ UNCHANGED wakeAt
            ELSE /\ wakeAt' = [wakeAt EXCEPT ![t] = now + SleepTicks]
                 /\ UNCHANGED <<pool, in_use, held, pc, lock>>
       ELSE /\ pc' = [pc EXCEPT ![t] = "failed"]
            /\ lock' = NoThread
            /\ UNCHANGED <<pool, in_use, held, wakeAt>>
    /\ callStart' = [callStart EXCEPT ![t] = IF pc'[t] = "holding" THEN 0 ELSE @]
    /\ UNCHANGED <<created_connections, nextId, now, arg, start_time, relStart,
                   scoped>>
    /\ UNCHANGED served
    /\ UNCHANGED nonPoolVars

(* "Database connection pool exhausted" reaches the caller. *)
get_connection_raise(t) ==
    /\ pc[t] = "failed"
    /\ pc' = [pc EXCEPT ![t] = "idle"]
    /\ scoped' = [scoped EXCEPT ![t] = FALSE]
    /\ callStart' = [callStart EXCEPT ![t] = 0]
    /\ start_time' = [start_time EXCEPT ![t] = 0]
    /\ wakeAt' = [wakeAt EXCEPT ![t] = 0]
    /\ UNCHANGED <<pool, in_use, created_connections, lock, nextId, now, held,
                   arg, relStart>>
    /\ UNCHANGED served
    /\ UNCHANGED nonPoolVars

(* A caller invokes pool.return_connection(c) with any connection the pool *)
(* has ever handed out: its own, one it returned before, or another's.     *)
return_connection_call(t, c) ==
    /\ pc[t] \in {"idle", "holding"}
    /\ ~scoped[t]
    /\ c \in 1..(nextId - 1)
    /\ pc' = [pc EXCEPT ![t] = "rel"]
    /\ arg' = [arg EXCEPT ![t] = c]
    /\ held' = [held EXCEPT ![t] = NoConn]
    /\ relStart' = [relStart EXCEPT ![t] = now]
    /\ callStart' = [callStart EXCEPT ![t] = 0]
    /\ UNCHANGED <<pool, in_use, created_connections, lock, nextId, now,
                   start_time, wakeAt, scoped>>
    /\ UNCHANGED served
    /\ UNCHANGED nonPoolVars

(* The variant without the `conn in self.in_use` test *)
return_connection_unchecked(t) ==
    /\ pc[t] = "rel"
    /\ lock = NoThread
    /\ in_use' = in_use \ {arg[t]}
    /\ pool' = Append(pool, arg[t])
    /\ pc' = [pc EXCEPT ![t] = "idle"]
    /\ arg' = [arg EXCEPT ![t] = NoConn]
    /\ held' = [held EXCEPT ![t] = NoConn]
    /\ relStart' = [relStart EXCEPT ![t] = 0]
    /\ scoped' = [scoped EXCEPT ![t] = FALSE]
    /\ UNCHANGED <<created_connections, lock, nextId, now, callStart,
                   start_time, wakeAt>>
    /\ UNCHANGED served
    /\ UNCHANGED nonPoolVars

(* return_connection, lines 74-77 *)
return_connection(t) ==
    /\ pc[t] = "rel"
    /\ lock = NoThread
    /\ IF arg[t] \in in_use
       THEN /\ in_use' = in_use \ {arg[t]}
            /\ pool' = Append(pool, arg[t])
       ELSE UNCHANGED <<pool, in_use>>
    /\ pc' = [pc EXCEPT ![t] = "idle"]
    /\ arg' = [arg EXCEPT ![t] = NoConn]
    /\ held' = [held EXCEPT ![t] = NoConn]
    /\ relStart' = [relStart EXCEPT ![t] = 0]
    /\ scoped' = [scoped EXCEPT ![t] = FALSE]
    /\ UNCHANGED <<created_connections, lock, nextId, now, callStart,
                   start_time, wakeAt>>
    /\ UNCHANGED served
    /\ UNCHANGED nonPoolVars

(* A caller invokes pool.close_all() (DatabaseOptimizer.__del__). *)
close_all_call(t) ==
    /\ pc[t] \in {"idle", "holding"}
    /\ ~scoped[t]
    /\ pc' = [pc EXCEPT ![t] = "closing"]
    /\ held' = [held EXCEPT ![t] = NoConn]
    /\ callStart' = [callStart EXCEPT ![t] = 0]
    /\ UNCHANGED <<pool, in_use, created_connections, lock, nextId, now, arg,
                   start_time, wakeAt, relStart, scoped>>
    /\ UNCHANGED served
    /\ UNCHANGED nonPoolVars

(* close_all, lines 81-88 *)
close_all(t) ==
    /\ pc[t] = "closing"
    /\ lock = NoThread
    /\ pool' = <<>>
    /\ in_use' = {}
    /\ created_connections' = 0
    /\ pc' = [pc EXCEPT ![t] = "idle"]
    /\ UNCHANGED <<lock, nextId, now, held, arg, callStart, start_time,
                   wakeAt, relStart, scoped>>
    /\ UNCHANGED served
    /\ UNCHANGED nonPoolVars

(* A thread can take a step that needs no time to pass. *)
Runnable(t) ==
    \/ pc[t] \in {"acq", "rel", "closing"} /\ lock = NoThread
       /\ (pc[t] = "acq" /\ pool = <<>> /\ created_connections < MaxConnections
             => nextId <= MaxConnId)
    \/ pc[t] = "wait" /\ now >= wakeAt[t]
    \/ pc[t] = "failed"

(* The clock advances while nobody can run. *)
Tick ==
    /\ now < MaxTime
    /\ \A t \in Threads : ~Runnable(t)
    /\ now' = now + 1
    /\ UNCHANGED <<pool, in_use, created_connections, lock, nextId, pc, held,
                   arg, callStart, start_time, wakeAt, relStart, scoped>>
    /\ UNCHANGED served
    /\ UNCHANGED nonPoolVars

(***************************************************************************)
(* DatabaseOptimizer.get_cursor                                            *)
(***************************************************************************)

(* with get_cursor(...): the scope begins with pool.get_connection(). *)
get_cursor_enter(t) ==
    /\ pc[t] = "idle"
    /\ ~scoped[t]
    /\ scoped' = [scoped EXCEPT ![t] = TRUE]
    /\ pc' = [pc EXCEPT ![t] = "acq"]
    /\ callStart' = [callStart EXCEPT ![t] = now]
    /\ UNCHANGED <<pool, in_use, created_connections, lock, nextId, now, held,
                   arg, start_time, wakeAt, relStart>>
    /\ UNCHANGED served
    /\ UNCHANGED nonPoolVars

(* Whether get_cursor's finally block reaches pool.return_connection(conn), *)
(* lines 206-217.  cursor = conn.cursor() is inside the try: when it fails  *)
(* the name cursor is unbound and cursor.close() in the finally block      *)
(* raises; when cursor.close() itself fails the finally block is left the  *)
(* same way.  A failing body, commit or rollback still reaches finally.    *)
get_cursor_releases(readonly, cursorFails, bodyRaises, commitFails, rollbackFails, closeFails) ==
    LET cursorBound == ~cursorFails
        closeRaises == ~cursorBound \/ closeFails
    IN  ~closeRaises

(* The scope is left: the body and commit/rollback have run (they do not   *)
(* touch the pool), and the finally block either calls return_connection   *)
(* or is left by an exception before it does.                              *)
get_cursor_exit(t) ==
    /\ pc[t] = "holding"
    /\ scoped[t]
    /\ \E readonly, cursorFails, bodyRaises, commitFails, rollbackFails, closeFails \in BOOLEAN :
          IF get_cursor_releases(readonly, cursorFails, bodyRaises, commitFails,
                                 rollbackFails, closeFails)
          THEN /\ pc' = [pc EXCEPT ![t] = "rel"]
               /\ arg' = [arg EXCEPT ![t] = held[t]]
               /\ relStart' = [relStart EXCEPT ![t] = now]
               /\ UNCHANGED <<held, scoped>>
          ELSE /\ pc' = [pc EXCEPT ![t] = "idle"]
               /\ held' = [held EXCEPT ![t] = NoConn]
               /\ scoped' = [scoped EXCEPT ![t] = FALSE]
               /\ UNCHANGED <<arg, relStart>>
    /\ callStart' = [callStart EXCEPT ![t] = 0]
    /\ UNCHANGED <<pool, in_use, created_connections, lock, nextId, now,
                   start_time, wakeAt>>
    /\ UNCHANGED served
    /\ UNCHANGED nonPoolVars

(***************************************************************************)
(* Part II: QueryResultCache, SchemaCache, ComplexityCache                 *)
(*                                                                         *)
(* The three caches share no state, so the model follows one cache object  *)
(* at a time; cls, fixed at construction, is its class.  A method that     *)
(* runs in one step under the lock is a step of whichever thread calls it. *)
(* Every method of                                                         *)
(* QueryResultCache and ComplexityCache runs entirely inside               *)
(* `with self.lock` and nothing touches their dictionaries outside it, so  *)
(* each is one step.  SchemaCache's dictionary is also cleared without the *)
(* lock (DatabaseOptimizer.clear_caches, line 291), so its getters are     *)
(* split at the points where that clear can fall between two dictionary    *)
(* accesses.                                                               *)
(***************************************************************************)
TTL == 1
MaxSize == 2
CacheMaxTime == 2

CacheClasses == {"QueryResultCache", "SchemaCache", "ComplexityCache"}
Values == {1, 2}
NoVal == None
NoKey == <<>>
NoEntry == [key |-> NoKey, timestamp |-> 0, value |-> NoVal]

(* Query texts: strings as sequences of characters *)
Queries == {<<"a">>, <<" ", "A">>, <<"b">>, <<"c">>}
Tables == {<<"t">>}
AllTablesKey == <<"_", "t", "a", "b", "l", "e", "s">>

(* str.lower() on the letters A to Z *)
LowerOf ==
    [A |-> "a", B |-> "b", C |-> "c", D |-> "d", E |-> "e", F |-> "f", G |-> "g",
     H |-> "h", I |-> "i", J |-> "j", K |-> "k", L |-> "l", M |-> "m", N |-> "n",
     O |-> "o", P |-> "p", Q |-> "q", R |-> "r", S |-> "s", T |-> "t", U |-> "u",
     V |-> "v", W |-> "w", X |-> "x", Y |-> "y", Z |-> "z"]
Range_LowerOf == {LowerOf[c] : c \in DOMAIN LowerOf}
LowerChar(c) == IF c \in DOMAIN LowerOf THEN LowerOf[c] ELSE c
lower(q) == [i \in DOMAIN q |-> LowerChar(q[i])]

(* The variant that takes the blank alone for whitespace *)
IsSpace_blank(c) == c = " "

(* str.isspace() on the characters in use *)
IsSpace(c) == c \in {" ", "\t", "\n"}

(* str.strip(): leading and trailing whitespace removed *)
lstrip(q) ==
    IF \A i \in DOMAIN q : IsSpace(q[i]) THEN <<>>
    ELSE SubSeq(q, CHOOSE i \in DOMAIN q :
                      ~IsSpace(q[i]) /\ \A j \in 1..(i - 1) : IsSpace(q[j]),
                Len(q))
rstrip(q) ==
    IF \A i \in DOMAIN q : IsSpace(q[i]) THEN <<>>
    ELSE SubSeq(q, 1, CHOOSE i \in DOMAIN q :
                         ~IsSpace(q[i]) /\ \A j \in (i + 1)..Len(q) : IsSpace(q[j]))
strip(q) == rstrip(lstrip(q))

(* The digests are taken to be collision free: a digest is modelled by the *)
(* text it was computed from, tagged with the algorithm.                   *)
sha256(text) == <<"sha256", text>>
md5(text) == <<"md5", text>>

(* QueryResultCache._generate_key: the exact statement text *)
QueryResultCache_generate_key(query) == sha256(query)

(* ComplexityCache._generate_key: lower-cased, then stripped *)
ComplexityCache_generate_key(query) == md5(strip(lower(query)))

Keys(c) == {c[i].key : i \in DOMAIN c}
Lookup(c, k) == c[CHOOSE i \in DOMAIN c : c[i].key = k]
Without(c, k) == SelectSeq(c, LAMBDA e : e.key # k)
WithoutKey(ks, k) == SelectSeq(ks, LAMBDA x : x # k)

(* The variant that leaves an existing key's item as it is *)
dict_setitem_keep(c, e) == IF e.key \in Keys(c) THEN c ELSE Append(c, e)

(* d[k] = e on a dict / OrderedDict: an existing key keeps its position *)
dict_setitem(c, e) ==
    IF e.key \in Keys(c)
    THEN [i \in DOMAIN c |-> IF c[i].key = e.key THEN e ELSE c[i]]
    ELSE Append(c, e)

(* The variant that leaves the order as it is *)
move_to_end_noop(c, k) == c

(* OrderedDict.move_to_end(k) *)
move_to_end(c, k) == Append(Without(c, k), Lookup(c, k))

(* OrderedDict.popitem(last=False): drops the first item *)
popitem_first(c) == Tail(c)

(* The variant that expires an entry already at age ttl *)
is_expired_at_ttl(timestamp) == now - timestamp >= TTL

(* The expiry test of every getter: `time.time() - timestamp > self.ttl` *)
is_expired(timestamp) == now - timestamp > TTL

(* The record kept of a completed operation *)
OpRecord(op, key, res, val, age, prevSet, popped) ==
    [op |-> op, key |-> key, res |-> res, val |-> val, age |-> age,
     at |-> now, prevSet |-> prevSet, popped |-> popped]

(* The value written by the operation completed just before, when that was *)
(* a set of the same key at this very instant.                             *)
JustSet(key) ==
    IF last.op = "set" /\ last.key = key /\ last.at = now THEN last.val ELSE NoVal

InitCache(classes) ==
    /\ cls \in classes
    /\ cache = <<>>
    /\ cacheLock = NoThread
    /\ cpc = [t \in Threads |-> "idle"]
    /\ ckey = [t \in Threads |-> NoKey]
    /\ cent = [t \in Threads |-> NoEntry]
    /\ last = [op |-> "none", key |-> NoKey, res |-> "", val |-> NoVal, age |-> 0,
               at |-> 0, prevSet |-> NoVal, popped |-> NoEntry]
    /\ accessOrder = <<>>

(* get of QueryResultCache (lines 108-121) and of ComplexityCache (lines   *)
(* 70-84): the same body under the lock.                                   *)
OrderedDictCache_get(key) ==
    /\ cacheLock = NoThread
    /\ IF key \notin Keys(cache)
       THEN /\ last' = OpRecord("get", key, "miss", NoVal, 0, JustSet(key), NoEntry)
            /\ UNCHANGED <<cache, accessOrder>>
       ELSE LET e == Lookup(cache, key) IN
            IF is_expired(e.timestamp)
            THEN /\ cache' = Without(cache, key)
                 /\ accessOrder' = WithoutKey(accessOrder, key)
                 /\ last' = OpRecord("get", key, "expired", NoVal,
                                     now - e.timestamp, JustSet(key), NoEntry)
            ELSE /\ cache' = move_to_end(cache, key)
                 /\ accessOrder' = Append(WithoutKey(accessOrder, key), key)
                 /\ last' = OpRecord("get", key, "hit", e.value,
                                     now - e.timestamp, JustSet(key), NoEntry)
    /\ UNCHANGED <<now, cls, cacheLock, cpc, ckey, cent>>
    /\ UNCHANGED nonCacheVars

(* set of QueryResultCache (lines 127-133) and of ComplexityCache (lines   *)
(* 95-102).                                                                *)
OrderedDictCache_set(key, v) ==
    /\ cacheLock = NoThread
    /\ LET stored == move_to_end(
                        dict_setitem(cache, [key |-> key, timestamp |-> now, value |-> v]),
                        key)
           touched == Append(WithoutKey(accessOrder, key), key)
       IN  IF Len(stored) > MaxSize
           THEN /\ cache' = popitem_first(stored)
                /\ accessOrder' = WithoutKey(touched, Head(stored).key)
                /\ last' = OpRecord("set", key, "", v, 0, NoVal, Head(stored))
           ELSE /\ cache' = stored
                /\ accessOrder' = touched
                /\ last' = OpRecord("set", key, "", v, 0, NoVal, NoEntry)
    /\ UNCHANGED <<now, cls, cacheLock, cpc, ckey, cent>>
    /\ UNCHANGED nonCacheVars

QueryResultCache_get(query) ==
    /\ cls = "QueryResultCache"
    /\ OrderedDictCache_get(QueryResultCache_generate_key(query))

QueryResultCache_set(query, result) ==
    /\ cls = "QueryResultCache"
    /\ OrderedDictCache_set(QueryResultCache_generate_key(query), result)

ComplexityCache_get(query) ==
    /\ cls = "ComplexityCache"
    /\ OrderedDictCache_get(ComplexityCache_generate_key(query))

ComplexityCache_set(query, result) ==
    /\ cls = "ComplexityCache"
    /\ OrderedDictCache_set(ComplexityCache_generate_key(query), result)

(* SchemaCache getters, first dictionary access under the lock (lines      *)
(* 151-153 and 170-172): `key not in self.cache`.                          *)
SchemaCache_get_begin(t, key) ==
    /\ cls = "SchemaCache"
    /\ cpc[t] = "idle"
    /\ cacheLock = NoThread
    /\ IF key \notin Keys(cache)
       THEN /\ last' = OpRecord("get", key, "miss", NoVal, 0, JustSet(key), NoEntry)
            /\ UNCHANGED <<cacheLock, cpc, ckey>>
       ELSE /\ cacheLock' = t
            /\ cpc' = [cpc EXCEPT ![t] = "read"]
            /\ ckey' = [ckey EXCEPT ![t] = key]
            /\ UNCHANGED last
    /\ UNCHANGED <<now, cls, cache, cent, accessOrder>>
    /\ UNCHANGED nonCacheVars

SchemaCache_get_table_schema(t, table_name) == SchemaCache_get_begin(t, table_name)

SchemaCache_get_all_tables(t) == SchemaCache_get_begin(t, AllTablesKey)

(* The getter leaves with the lock released. *)
SchemaCache_get_done(t, res, val, age) ==
    /\ last' = OpRecord("get", ckey[t], res, val, age, JustSet(ckey[t]), NoEntry)
    /\ cacheLock' = NoThread
    /\ cpc' = [cpc EXCEPT ![t] = "idle"]
    /\ ckey' = [ckey EXCEPT ![t] = NoKey]
    /\ cent' = [cent EXCEPT ![t] = NoEntry]

(* Second access (lines 155 and 174): `timestamp, v = self.cache[key]`,    *)
(* a KeyError when the key is gone.                                        *)
SchemaCache_get_read(t) ==
    /\ cls = "SchemaCache"
    /\ cpc[t] = "read"
    /\ IF ckey[t] \in Keys(cache)
       THEN /\ cent' = [cent EXCEPT ![t] = Lookup(cache, ckey[t])]
            /\ cpc' = [cpc EXCEPT ![t] = "test"]
            /\ UNCHANGED <<cacheLock, ckey, last>>
       ELSE SchemaCache_get_done(t, "KeyError", NoVal, 0)
    /\ UNCHANGED <<now, cls, cache, accessOrder>>
    /\ UNCHANGED nonCacheVars

(* The expiry test and what follows it (lines 157-161 and 176-180):        *)
(* `del self.cache[key]` is a KeyError when the key is gone.               *)
SchemaCache_get_test(t) ==
    /\ cls = "SchemaCache"
    /\ cpc[t] = "test"
    /\ IF is_expired(cent[t].timestamp)
       THEN IF ckey[t] \in Keys(cache)
            THEN /\ cache' = Without(cache, ckey[t])
                 /\ accessOrder' = WithoutKey(accessOrder, ckey[t])
                 /\ SchemaCache_get_done(t, "expired", NoVal, now - cent[t].timestamp)
            ELSE /\ SchemaCache_get_done(t, "KeyError", NoVal, now - cent[t].timestamp)
                 /\ UNCHANGED <<cache, accessOrder>>
       ELSE /\ SchemaCache_get_done(t, "hit", cent[t].value, now - cent[t].timestamp)
            /\ UNCHANGED <<cache, accessOrder>>
    /\ UNCHANGED <<now, cls>>
    /\ UNCHANGED nonCacheVars

(* set_table_schema (lines 165-166) and set_all_tables (lines 184-185) *)
SchemaCache_set(key, v) ==
    /\ cls = "SchemaCache"
    /\ cacheLock = NoThread
    /\ cache' = dict_setitem(cache, [key |-> key, timestamp |-> now, value |-> v])
    /\ accessOrder' = Append(WithoutKey(accessOrder, key), key)
    /\ last' = OpRecord("set", key, "", v, 0, NoVal, NoEntry)
    /\ UNCHANGED <<now, cls, cacheLock, cpc, ckey, cent>>
    /\ UNCHANGED nonCacheVars

SchemaCache_set_table_schema(table_name, schema) == SchemaCache_set(table_name, schema)

SchemaCache_set_all_tables(tables) == SchemaCache_set(AllTablesKey, tables)

(* DatabaseOptimizer.clear_caches (lines 288-291): query_cache.clear()     *)
(* takes the cache's lock; schema_cache.cache.clear() does not.            *)
clear_caches ==
    /\ cls \in {"QueryResultCache", "SchemaCache"}
    /\ \E t \in Threads : cpc[t] = "idle"
    /\ cls = "QueryResultCache" => cacheLock = NoThread
    /\ cache' = <<>>
    /\ accessOrder' = <<>>
    /\ last' = OpRecord("clear", NoKey, "", NoVal, 0, NoVal, NoEntry)
    /\ UNCHANGED <<now, cls, cacheLock, cpc, ckey, cent>>
    /\ UNCHANGED nonCacheVars

(* DatabaseOptimizer.__init__, lines 195-200: the counters start at zero   *)
(* and no execute_cached_query call is in progress.                        *)
NoCall == [thread |-> NoThread, query |-> NoKey, outcome |-> "none",
           val |-> NoVal, sent |-> 0]
InitOptimizer ==
    /\ stats = [cache_hits |-> 0, cache_misses |-> 0, queries_executed |-> 0]
    /\ opc = [t \in Threads |-> "idle"]
    /\ oq = [t \in Threads |-> NoKey]
    /\ oconn = [t \in Threads |-> NoConn]
    /\ osent = [t \in Threads |-> 0]
    /\ oexc = [t \in Threads |-> "none"]
    /\ oval = [t \in Threads |-> NoVal]
    /\ ncalls = 0
    /\ olast = NoCall

(* Thresholds and scores are kept in units of 1/One: every weight of the   *)
(* analyzer is a multiple of 1/1000 and its SQL dimension a multiple of    *)
(* 1/17, so each term of a score is a whole number of units.  The          *)
(* rounding of the floats is not followed.                                 *)
One == 17000
Hundredths(n) == (n * One) \div 100

(* `threshold: float = 0.25`, the default of both constructors *)
DefaultThreshold == Hundredths(25)

(* A log file that does not exist or holds no records *)
EmptyLog == [selections |-> <<>>, feedback |-> <<>>]

(* PerformanceMonitor.__init__, lines 122-134: the metrics start as the    *)
(* content of the log file.                                                *)
load_metrics(file) == [selections |-> file.selections, feedback |-> file.feedback]

NoCalibration == [n |-> 0, returned |-> 0, records |-> 0]
NoRouting == [n |-> 0, query |-> NoKey, score |-> 0, threshold |-> 0,
              model |-> "", calibrated |-> FALSE]

(* DynamicComplexityRouter.__init__, lines 418-437: the threshold is taken *)
(* as passed, the monitor loads the log file, the calibrator starts from   *)
(* the same threshold and the last calibration is dated now.               *)
InitRouter(logs, thresholds) ==
    /\ log_file \in logs
    /\ write_errors = 0
    /\ metrics = load_metrics(log_file)
    /\ threshold \in thresholds
    /\ current_threshold = threshold
    /\ calibration_history = <<>>
    /\ last_calibration = 0
    /\ rpc = "idle"
    /\ rquery = NoKey
    /\ rscore = 0
    /\ rmodel = ""
    /\ rsize = 0
    /\ clast = NoCalibration
    /\ rlast = NoRouting

NoAnalysis == [n |-> 0, query |-> NoKey, result |-> <<>>, hit |-> FALSE,
               before |-> NoKey]
NoMonitorCall == [op |-> "none", arg |-> <<>>, written |-> FALSE, raised |-> FALSE,
                  result |-> <<>>]
NoRequest == <<>>
NotPruned == [done |-> FALSE, result |-> <<>>]

NoParams == [done |-> FALSE, result |-> <<>>]

(* optimize_model_params has not been called; its arguments are drawn. *)
InitParams(scores, providers) ==
    /\ query_complexity \in scores
    /\ provider \in providers
    /\ params = NoParams

(* Lines 299-300 of database_optimizer.py: the module as imported *)
InitSingleton ==
    /\ optimizer = None
    /\ optimizer_lock = NoThread
    /\ instances = 0
    /\ gpc = [t \in Threads |-> "idle"]
    /\ gret = [t \in Threads |-> None]
    /\ gcalls = [t \in Threads |-> 0]
    /\ contended = {}

(* Nothing has been analysed, asked of the monitor, requested or pruned. *)
InitUsage ==
    /\ alast = NoAnalysis
    /\ mlast = NoMonitorCall
    /\ tpc = NoRequest
    /\ tq = NoRequest
    /\ tnow = NoRequest
    /\ invoked = <<>>
    /\ messages = <<>>
    /\ max_messages = 0
    /\ pruned = NotPruned
    /\ InitParams({0}, {<<>>})
    /\ InitSingleton

(* The clock advances between cache operations. *)
TickCache ==
    /\ now < CacheMaxTime
    /\ \A t \in Threads : cpc[t] = "idle"
    /\ now' = now + 1
    /\ UNCHANGED cacheVars
    /\ UNCHANGED nonCacheVars

NextCache ==
    \/ \E q \in Queries : QueryResultCache_get(q)
    \/ \E q \in Queries : \E v \in Values : QueryResultCache_set(q, v)
    \/ \E q \in Queries : ComplexityCache_get(q)
    \/ \E q \in Queries : \E v \in Values : ComplexityCache_set(q, v)
    \/ \E t \in Threads : \E n \in Tables : SchemaCache_get_table_schema(t, n)
    \/ \E t \in Threads : SchemaCache_get_all_tables(t)
    \/ \E t \in Threads : SchemaCache_get_read(t)
    \/ \E t \in Threads : SchemaCache_get_test(t)
    \/ \E n \in Tables : \E v \in Values : SchemaCache_set_table_schema(n, v)
    \/ \E v \in Values : SchemaCache_set_all_tables(v)
    \/ clear_caches
    \/ TickCache

InitCaches ==
    /\ now = 0
    /\ InitPool
    /\ InitCache(CacheClasses)
    /\ InitOptimizer
    /\ InitRouter({EmptyLog}, {DefaultThreshold})
    /\ InitUsage

SpecCache == InitCaches /\ [][NextCache]_vars

(* A SchemaCache used with any table name, the name "_tables" included.    *)
(* Schemas (lists of column descriptors) and lists of table names are      *)
(* values of different kinds.                                              *)
TableNames == Tables \cup {AllTablesKey}
ColumnLists == Values
TableLists == {3, 4}

InitSchema ==
    /\ now = 0
    /\ InitPool
    /\ InitCache({"SchemaCache"})
    /\ InitOptimizer
    /\ InitRouter({EmptyLog}, {DefaultThreshold})
    /\ InitUsage

NextSchema ==
    \/ \E t \in Threads : \E n \in TableNames : SchemaCache_get_table_schema(t, n)
    \/ \E t \in Threads : SchemaCache_get_all_tables(t)
    \/ \E t \in Threads : SchemaCache_get_read(t)
    \/ \E t \in Threads : SchemaCache_get_test(t)
    \/ \E n \in TableNames : \E v \in ColumnLists : SchemaCache_set_table_schema(n, v)
    \/ \E v \in TableLists : SchemaCache_set_all_tables(v)
    \/ TickCache

SpecSchema == InitSchema /\ [][NextSchema]_vars

Init ==
    /\ now = 0
    /\ InitPool
    /\ InitCache({"QueryResultCache"})
    /\ InitOptimizer
    /\ InitRouter({EmptyLog}, {DefaultThreshold})
    /\ InitUsage

(* Threads that use the pool's methods directly, in any order. *)
Next ==
    \/ \E t \in Threads : get_connection_call(t)
    \/ \E t \in Threads : get_connection_enter(t)
    \/ \E t \in Threads : get_connection_wait(t)
    \/ \E t \in Threads : get_connection_raise(t)
    \/ \E t \in Threads : \E c \in 1..MaxConnId : return_connection_call(t, c)
    \/ \E t \in Threads : return_connection(t)
    \/ \E t \in Threads : close_all_call(t)
    \/ \E t \in Threads : close_all(t)
    \/ Tick

Spec == Init /\ [][Next]_vars

(* Threads that use the pool only through get_cursor scopes. *)
NextScoped ==
    \/ \E t \in Threads : get_cursor_enter(t)
    \/ \E t \in Threads : get_connection_enter(t)
    \/ \E t \in Threads : get_connection_wait(t)
    \/ \E t \in Threads : get_connection_raise(t)
    \/ \E t \in Threads : get_cursor_exit(t)
    \/ \E t \in Threads : return_connection(t)
    \/ Tick

SpecScoped == Init /\ [][NextScoped]_vars

(***************************************************************************)
(* get_optimizer, the module's one DatabaseOptimizer (lines 298-310)       *)
(***************************************************************************)
MaxOptimizerCalls == 3

otherThanSingleton == <<now, poolVars, cacheVars, optVars, routerVars, analysisVars,
                        requestVars, pruneVars, paramVars>>

(* Line 306: a caller enters get_optimizer and makes the first test of     *)
(* `_optimizer is None`, outside the lock.                                 *)
get_optimizer_call(t) ==
    /\ gpc[t] = "idle"
    /\ gcalls[t] < MaxOptimizerCalls
    /\ gpc' = [gpc EXCEPT ![t] = IF optimizer = None THEN "lock" ELSE "return"]
    /\ contended' = IF optimizer = None THEN contended \cup {t} ELSE contended
    /\ UNCHANGED <<optimizer, optimizer_lock, instances, gret, gcalls>>
    /\ UNCHANGED otherThanSingleton

(* Line 307: `with _optimizer_lock`, which blocks while another holds it *)
get_optimizer_acquire(t) ==
    /\ gpc[t] = "lock"
    /\ optimizer_lock = NoThread
    /\ optimizer_lock' = t
    /\ gpc' = [gpc EXCEPT ![t] = "locked"]
    /\ UNCHANGED <<optimizer, instances, gret, gcalls, contended>>
    /\ UNCHANGED otherThanSingleton

(* The variant without the second test: whoever gets the lock constructs *)
get_optimizer_locked_untested(t) ==
    /\ gpc[t] = "locked"
    /\ optimizer_lock = t
    /\ instances' = instances + 1
    /\ gpc' = [gpc EXCEPT ![t] = "assign"]
    /\ UNCHANGED optimizer_lock
    /\ UNCHANGED <<optimizer, gret, gcalls, contended>>
    /\ UNCHANGED otherThanSingleton

(* Lines 308-309: the second test, under the lock, and DatabaseOptimizer() *)
(* when it passes; otherwise the with block is left.                       *)
get_optimizer_locked(t) ==
    /\ gpc[t] = "locked"
    /\ optimizer_lock = t
    /\ IF optimizer = None
       THEN /\ instances' = instances + 1
            /\ gpc' = [gpc EXCEPT ![t] = "assign"]
            /\ UNCHANGED optimizer_lock
       ELSE /\ optimizer_lock' = NoThread
            /\ gpc' = [gpc EXCEPT ![t] = "return"]
            /\ UNCHANGED instances
    /\ UNCHANGED <<optimizer, gret, gcalls, contended>>
    /\ UNCHANGED otherThanSingleton

(* Line 309: the new object, the instances-th one constructed, is bound to *)
(* _optimizer and the with block is left.                                  *)
get_optimizer_assign(t) ==
    /\ gpc[t] = "assign"
    /\ optimizer_lock = t
    /\ optimizer' = instances
    /\ optimizer_lock' = NoThread
    /\ gpc' = [gpc EXCEPT ![t] = "return"]
    /\ UNCHANGED <<instances, gret, gcalls, contended>>
    /\ UNCHANGED otherThanSingleton

(* Line 310: `return _optimizer` reads the global *)
get_optimizer_return(t) ==
    /\ gpc[t] = "return"
    /\ gret' = [gret EXCEPT ![t] = optimizer]
    /\ gcalls' = [gcalls EXCEPT ![t] = @ + 1]
    /\ gpc' = [gpc EXCEPT ![t] = "idle"]
    /\ UNCHANGED <<optimizer, optimizer_lock, instances, contended>>
    /\ UNCHANGED otherThanSingleton

(* Threads that call get_optimizer, in any order. *)
NextSingleton ==
    \/ \E t \in Threads : get_optimizer_call(t)
    \/ \E t \in Threads : get_optimizer_acquire(t)
    \/ \E t \in Threads : get_optimizer_locked(t)
    \/ \E t \in Threads : get_optimizer_assign(t)
    \/ \E t \in Threads : get_optimizer_return(t)

SpecSingleton == Init /\ [][NextSingleton]_vars

(***************************************************************************)
(* Claims about the pool                                                   *)
(***************************************************************************)

(* C1: under any interleaving of get_connection, return_connection and     *)
(* close_all, the idle list and the in-use set are disjoint, the idle list *)
(* holds no connection twice, created_connections = |idle| + |in-use| and  *)
(* created_connections <= max_connections.                                 *)
C1_PoolInvariant ==
    /\ Range(pool) \cap in_use = {}
    /\ Cardinality(Range(pool)) = Len(pool)
    /\ created_connections = Len(pool) + Cardinality(in_use)
    /\ created_connections <= MaxConnections
    /\ Cardinality(in_use) <= MaxConnections

(* The pool is full, one thread waits for a connection and another is      *)
(* returning one that was closed by close_all or returned before.          *)
C1_Witness ==
    /\ created_connections = MaxConnections
    /\ \E t \in Threads : pc[t] = "wait"
    /\ \E t \in Threads : pc[t] = "rel" /\ arg[t] \notin in_use

(* C2: a waiter in get_connection never times out when a holder called    *)
(* return_connection for a loaned connection before the waiter's timeout   *)
(* elapsed: the release completes and the waiter gets the connection.      *)
C2_ReleaseReachesWaiter ==
    \A t, h \in Threads :
        ~ /\ pc[t] = "failed"
          /\ pc[h] = "rel"
          /\ arg[h] \in in_use
          /\ start_time[t] < relStart[h]
          /\ relStart[h] < start_time[t] + Timeout

(* C3: with all callers inside get_cursor scopes, no connection is in the  *)
(* hands of two callers at once.                                           *)
C3_ExclusiveLoan ==
    \A t, u \in Threads :
        (t # u /\ held[t] # NoConn /\ held[u] # NoConn) => held[t] # held[u]

(* One scope holds a connection while another caller is inside             *)
(* get_connection waiting for one.                                         *)
C3_Witness ==
    \E t, u \in Threads :
        /\ t # u
        /\ pc[t] = "holding" /\ held[t] \in in_use
        /\ pc[u] = "wait"

(* C4: a get_connection call that fails with the pool-exhausted error does *)
(* so no later than `timeout` after the call began, and leaves the pool's  *)
(* state as it was.                                                        *)
C4_FailsWithinTimeout ==
    \A t \in Threads :
        pc[t] = "failed" =>
            /\ now - callStart[t] <= Timeout
            /\ held[t] = NoConn

(* C5: when every get_cursor scope that was entered has been left, the     *)
(* in-use set is empty: each scope put its connection back.                *)
C5_ScopesReleaseAll ==
    (\A t \in Threads : pc[t] = "idle" /\ ~scoped[t]) => in_use = {}

(* C6: get_connection opens a connection only when the idle list is empty  *)
(* and created_connections < max_connections; when an idle connection      *)
(* exists nobody holds the lock in the wait loop, and the call returns the *)
(* idle connection without waiting and without creating one; in            *)
(* particular so after all loaned connections were released.               *)
C6_LazyCreation ==
    /\ [](pool # <<>> => lock = NoThread)
    /\ [][\A t \in Threads :
            (pc[t] = "acq" /\ pc'[t] # "acq") =>
                /\ nextId' # nextId =>
                       (pool = <<>> /\ created_connections < MaxConnections)
                /\ pool # <<>> =>
                       /\ pc'[t] = "holding"
                       /\ held'[t] = Last(pool)
                       /\ held'[t] \in in_use'
                       /\ nextId' = nextId
                       /\ created_connections' = created_connections
                /\ (in_use = {} /\ created_connections > 0) =>
                       (pc'[t] = "holding" /\ nextId' = nextId)
       ]_vars

(* A call was served from the idle list after every loaned connection had  *)
(* been released.                                                          *)
C6_Witness ==
    /\ served = "idle"
    /\ Cardinality(in_use) = 1
    /\ pool = <<>>
    /\ \E t \in Threads : pc[t] = "holding" /\ held[t] \in in_use

(***************************************************************************)
(* Claims about the caches                                                 *)
(***************************************************************************)

(* A step that completes a get, respectively a set *)
GetCompletes == last' # last /\ last'.op = "get"
SetCompletes == last' # last /\ last'.op = "set"

(* C7 (as amended): no get returns an entry whose age now - timestamp is   *)
(* greater than ttl.  A get that finds its entry in the map returns the    *)
(* entry's value when now - timestamp <= ttl (an entry of age exactly ttl  *)
(* is still visible), and otherwise returns none and removes the entry.    *)
C7_TtlVisibility ==
    /\ [](last.op = "get" /\ last.res = "hit" => last.age <= TTL)
    /\ [][(GetCompletes /\ last'.key \in Keys(cache)) =>
            LET e == Lookup(cache, last'.key) IN
            IF now - e.timestamp > TTL
            THEN last'.res = "expired" /\ last'.key \notin Keys(cache')
            ELSE last'.res = "hit" /\ last'.val = e.value /\ last'.key \in Keys(cache')
       ]_vars

(* A get returned an entry whose age is exactly ttl. *)
C7_Witness == last.op = "get" /\ last.res = "hit" /\ last.age = TTL

(* C7 (as claimed): no get returns an entry whose age is >= ttl. *)
C7_StrictTtl == (last.op = "get" /\ last.res = "hit") => last.age < TTL

(* C8: get(k) right after set(k, v) returns v; a set leaves exactly one    *)
(* entry for its key, holding the new value and the time of the set; a get *)
(* of an entry in the map whose age exceeds ttl returns none.              *)
C8_RoundTrip ==
    /\ [](last.op = "get" /\ last.prevSet # NoVal =>
             last.res = "hit" /\ last.val = last.prevSet)
    /\ [][SetCompletes =>
            /\ last'.key \in Keys(cache')
            /\ Lookup(cache', last'.key) =
                   [key |-> last'.key, timestamp |-> now, value |-> last'.val]
            /\ Cardinality(Keys(cache')) = Len(cache')
       ]_vars
    /\ [][(GetCompletes /\ last'.key \in Keys(cache)
              /\ now - Lookup(cache, last'.key).timestamp > TTL) =>
            last'.res = "expired" /\ last'.val = NoVal
       ]_vars

(* A get that directly followed a set of its key returned the value set,   *)
(* while the map held another entry as well.                               *)
C8_Witness ==
    /\ last.op = "get" /\ last.prevSet \in Values /\ last.val = last.prevSet
    /\ Len(cache) > 1

(* C9: in QueryResultCache and ComplexityCache a set of a new key into a   *)
(* cache that holds max_size entries removes exactly the entry whose last  *)
(* successful get or set is the oldest; any other set removes nothing.     *)
C9_LruEviction ==
    [][(SetCompletes /\ cls \in {"QueryResultCache", "ComplexityCache"}) =>
         IF last'.key \notin Keys(cache) /\ Len(cache) >= MaxSize
         THEN /\ Keys(cache') = (Keys(cache) \ {Head(accessOrder)}) \cup {last'.key}
              /\ Head(accessOrder) \in Keys(cache)
              /\ last'.popped.key = Head(accessOrder)
         ELSE /\ Keys(cache') = Keys(cache) \cup {last'.key}
              /\ last'.popped = NoEntry
      ]_vars

(* A set evicted an entry although an entry stored before it is still in   *)
(* the map: the older one had been read in between.                        *)
C9_Witness ==
    /\ last.op = "set"
    /\ last.popped # NoEntry
    /\ \E i \in DOMAIN cache : cache[i].timestamp < last.popped.timestamp

(* C10: every get, set and clear takes effect atomically: a cache with a   *)
(* capacity never holds more than max_size entries, and a get returns none *)
(* or a stored value (it does not fail).                                   *)
C10_AtomicCalls ==
    /\ cls \in {"QueryResultCache", "ComplexityCache"} => Len(cache) <= MaxSize
    /\ last.op = "get" => last.res \in {"hit", "miss", "expired"}

(***************************************************************************)
(* Part III: DatabaseOptimizer.execute_cached_query                        *)
(*                                                                         *)
(* The optimizer's query cache is the QueryResultCache of Part II and its  *)
(* pool the DatabasePool of Part I.  A call is followed through the places *)
(* where another thread can run: after the cache lookup, inside the        *)
(* get_cursor scope (get_connection and return_connection are the steps of *)
(* Part I) and after the scope is left.  avg_query_time, a float assigned  *)
(* in the same place as queries_executed, is left out.                     *)
(***************************************************************************)
MaxCalls == 2

Callers == {1, 2}

(* Statement texts *)
Statements == {<<" ", "s", "e", "l", "e", "c", "t">>,
               <<"S", "E", "L", "E", "C", "T">>,
               <<" ", "i", "n", "s", "e", "r", "t">>}

(* str.upper() on the characters in use *)
UpperChar(c) == IF c = "s" THEN "S" ELSE IF c = "e" THEN "E"
                ELSE IF c = "l" THEN "L" ELSE IF c = "c" THEN "C"
                ELSE IF c = "t" THEN "T" ELSE IF c = "i" THEN "I"
                ELSE IF c = "n" THEN "N" ELSE IF c = "r" THEN "R" ELSE c
upper(q) == [i \in DOMAIN q |-> UpperChar(q[i])]

(* str.startswith *)
startswith(s, prefix) ==
    Len(s) >= Len(prefix) /\ SubSeq(s, 1, Len(prefix)) = prefix

(* The variant that stores the rows of every statement *)
caches_result_always(query) == TRUE

(* Line 244: `query.strip().upper().startswith("SELECT")` *)
caches_result(query) ==
    startswith(upper(strip(query)), <<"S", "E", "L", "E", "C", "T">>)

(* QueryResultCache.get, lines 108-121, as a function of the dictionary:   *)
(* what it returns and the dictionary it leaves.                           *)
QueryResultCache_get_result(c, query) ==
    LET key == QueryResultCache_generate_key(query) IN
    IF key \notin Keys(c)
    THEN [val |-> NoVal, cache |-> c]
    ELSE LET e == Lookup(c, key) IN
         IF is_expired(e.timestamp)
         THEN [val |-> NoVal, cache |-> Without(c, key)]
         ELSE [val |-> e.value, cache |-> move_to_end(c, key)]

(* QueryResultCache.set, lines 127-133, as a function of the dictionary *)
QueryResultCache_set_result(c, query, result) ==
    LET key == QueryResultCache_generate_key(query)
        stored == move_to_end(
                     dict_setitem(c, [key |-> key, timestamp |-> now, value |-> result]),
                     key)
    IN  IF Len(stored) > MaxSize THEN popitem_first(stored) ELSE stored

(* The record kept of a completed call *)
CallRecord(t, query, outcome, val, sent) ==
    [thread |-> t, query |-> query, outcome |-> outcome, val |-> val,
     sent |-> sent]

(* execute_cached_query, lines 219-229: the cache lookup, then either the  *)
(* return of the cached rows or the entry into the get_cursor scope, which *)
(* begins with pool.get_connection().                                      *)
execute_cached_query_call(t, query) ==
    /\ pc[t] = "idle"
    /\ ~scoped[t]
    /\ opc[t] = "idle"
    /\ ncalls < MaxCalls
    /\ cls = "QueryResultCache"
    /\ ncalls' = ncalls + 1
    /\ LET cached_result == QueryResultCache_get_result(cache, query) IN
       /\ cache' = cached_result.cache
       /\ IF cached_result.val # NoVal
          THEN /\ stats' = [stats EXCEPT !.cache_hits = @ + 1]
               /\ olast' = CallRecord(t, query, "hit", cached_result.val, 0)
               /\ UNCHANGED <<opc, oq, pc, scoped, callStart>>
          ELSE /\ opc' = [opc EXCEPT ![t] = "exec"]
               /\ oq' = [oq EXCEPT ![t] = query]
               /\ scoped' = [scoped EXCEPT ![t] = TRUE]
               /\ pc' = [pc EXCEPT ![t] = "acq"]
               /\ callStart' = [callStart EXCEPT ![t] = now]
               /\ UNCHANGED <<stats, olast>>
    /\ UNCHANGED <<oconn, osent, oexc, oval>>
    /\ UNCHANGED <<now, pool, in_use, created_connections, lock, nextId, held,
                   arg, start_time, wakeAt, relStart, served>>
    /\ UNCHANGED <<cls, cacheLock, cpc, ckey, cent, last, accessOrder>>
    /\ UNCHANGED <<routerVars, usageVars>>

(* The get_cursor scope of lines 229-231 with the connection in hand:      *)
(* conn.cursor(), cursor.execute(query), cursor.fetchall(), then the       *)
(* except and finally blocks of get_cursor up to the call of               *)
(* pool.return_connection.  What leaves the with block is the last         *)
(* exception raised: the one of cursor.close() when that fails, else the   *)
(* one of cursor() or of execute.  oexc names every call that raised.      *)
execute_cached_query_body(t) ==
    /\ opc[t] = "exec"
    /\ pc[t] = "holding"
    /\ \E cursorFails, executeRaises, closeFails \in BOOLEAN : \E rows \in Values :
          LET sent == ~cursorFails
              rejected == sent /\ executeRaises
              returns == get_cursor_releases(TRUE, cursorFails, executeRaises,
                                             FALSE, FALSE, closeFails)
          IN  /\ (cursorFails => ~executeRaises /\ ~closeFails)
              /\ osent' = [osent EXCEPT ![t] = IF sent THEN 1 ELSE 0]
              /\ oexc' = [oexc EXCEPT ![t] =
                            IF cursorFails THEN "cursor"
                            ELSE IF rejected /\ closeFails THEN "store, close"
                            ELSE IF rejected THEN "store"
                            ELSE IF closeFails THEN "close"
                            ELSE "none"]
              /\ oval' = [oval EXCEPT ![t] =
                            IF ~returns \/ rejected THEN NoVal ELSE rows]
              /\ IF returns
                 THEN /\ pc' = [pc EXCEPT ![t] = "rel"]
                      /\ arg' = [arg EXCEPT ![t] = held[t]]
                      /\ relStart' = [relStart EXCEPT ![t] = now]
                      /\ UNCHANGED <<held, scoped>>
                 ELSE /\ pc' = [pc EXCEPT ![t] = "idle"]
                      /\ held' = [held EXCEPT ![t] = NoConn]
                      /\ scoped' = [scoped EXCEPT ![t] = FALSE]
                      /\ UNCHANGED <<arg, relStart>>
    /\ opc' = [opc EXCEPT ![t] = "post"]
    /\ oconn' = [oconn EXCEPT ![t] = held[t]]
    /\ UNCHANGED <<stats, oq, ncalls, olast>>
    /\ UNCHANGED <<now, pool, in_use, created_connections, lock, nextId,
                   callStart, start_time, wakeAt, served>>
    /\ UNCHANGED cacheVars
    /\ UNCHANGED <<routerVars, usageVars>>

(* Lines 233-247, after the scope: an exception goes on to the caller;     *)
(* otherwise the counters are updated, the rows are stored when the        *)
(* statement is a SELECT, and the rows are returned.                       *)
execute_cached_query_return(t) ==
    /\ opc[t] = "post"
    /\ pc[t] = "idle"
    /\ IF oexc[t] # "none"
       THEN /\ olast' = CallRecord(t, oq[t], "raised", NoVal, osent[t])
            /\ UNCHANGED <<stats, cache>>
       ELSE /\ stats' = [stats EXCEPT !.cache_misses = @ + 1,
                                      !.queries_executed = @ + 1]
            /\ cache' = IF caches_result(oq[t])
                        THEN QueryResultCache_set_result(cache, oq[t], oval[t])
                        ELSE cache
            /\ olast' = CallRecord(t, oq[t], "returned", oval[t], osent[t])
    /\ opc' = [opc EXCEPT ![t] = "idle"]
    /\ oq' = [oq EXCEPT ![t] = NoKey]
    /\ oconn' = [oconn EXCEPT ![t] = NoConn]
    /\ osent' = [osent EXCEPT ![t] = 0]
    /\ oexc' = [oexc EXCEPT ![t] = "none"]
    /\ oval' = [oval EXCEPT ![t] = NoVal]
    /\ UNCHANGED ncalls
    /\ UNCHANGED <<now, poolVars>>
    /\ UNCHANGED <<cls, cacheLock, cpc, ckey, cent, last, accessOrder>>
    /\ UNCHANGED <<routerVars, usageVars>>

(* pool.get_connection() raised "pool exhausted" at line 205, before the   *)
(* try of get_cursor: the exception goes on to the caller.                 *)
execute_cached_query_exhausted(t) ==
    /\ opc[t] = "exec"
    /\ pc[t] = "idle"
    /\ olast' = CallRecord(t, oq[t], "exhausted", NoVal, 0)
    /\ opc' = [opc EXCEPT ![t] = "idle"]
    /\ oq' = [oq EXCEPT ![t] = NoKey]
    /\ UNCHANGED <<stats, oconn, osent, oexc, oval, ncalls>>
    /\ UNCHANGED <<now, poolVars, cacheVars>>
    /\ UNCHANGED <<routerVars, usageVars>>

(* The clock of Part I, followed as far as the cache entries' ages matter. *)
TickOptimizer == now < CacheMaxTime /\ Tick

(* Threads that run statements through execute_cached_query. *)
NextOptimizer ==
    \/ \E t \in Callers : \E q \in Statements : execute_cached_query_call(t, q)
    \/ \E t \in Callers : get_connection_enter(t)
    \/ \E t \in Callers : get_connection_wait(t)
    \/ \E t \in Callers : get_connection_raise(t)
    \/ \E t \in Callers : execute_cached_query_body(t)
    \/ \E t \in Callers : return_connection(t)
    \/ \E t \in Callers : execute_cached_query_return(t)
    \/ \E t \in Callers : execute_cached_query_exhausted(t)
    \/ TickOptimizer

SpecOptimizer == Init /\ [][NextOptimizer]_vars

(***************************************************************************)
(* Claims about execute_cached_query                                       *)
(***************************************************************************)
NonReadStatements == {<<" ", "i", "n", "s", "e", "r", "t">>}

(* The statement of the call thread t takes a step of *)
CallStatement(t) == IF opc[t] = "idle" THEN oq'[t] ELSE oq[t]

(* C11: a call of execute_cached_query with a statement that does not      *)
(* begin, after trimming, with a read keyword never returns a cached value *)
(* and never populates the cache: no step of the call changes the cache or *)
(* counts a hit, no entry is ever stored under the statement, and the rows *)
(* it returns are those of the one cursor.execute it made.                 *)
C11_NonReadBypassesCache ==
    /\ [](\A q \in NonReadStatements :
            QueryResultCache_generate_key(q) \notin Keys(cache))
    /\ [](olast.query \in NonReadStatements =>
            /\ olast.outcome # "hit"
            /\ olast.outcome = "returned" => olast.sent = 1)
    /\ [][\A t \in Callers :
            opc'[t] # opc[t] /\ CallStatement(t) \in NonReadStatements =>
                cache' = cache /\ stats'.cache_hits = stats.cache_hits]_vars

C11_Witness ==
    /\ olast.query \in NonReadStatements
    /\ olast.outcome = "returned"
    /\ cache # <<>>

(* C12: when the store rejects the statement of an execute_cached_query    *)
(* call, the call raises to its caller after that one cursor.execute, the  *)
(* connection it used is back in the idle list (or already lent again), no *)
(* cache entry is created and the counters are unchanged.                  *)
C12_RejectionLeavesNoTrace ==
    [][\A t \in Callers :
          opc[t] = "post" /\ opc'[t] = "idle"
          /\ oexc[t] \in {"store", "store, close"} =>
              /\ olast'.outcome = "raised"
              /\ olast'.sent = 1
              /\ cache' = cache
              /\ stats' = stats
              /\ \/ oconn[t] \in Range(pool)
                 \/ \E u \in Threads \ {t} : held[u] = oconn[t]]_vars

(* The same without the connection's return *)
C12_RejectionLeavesCacheAndStats ==
    [][\A t \in Callers :
          opc[t] = "post" /\ opc'[t] = "idle"
          /\ oexc[t] \in {"store", "store, close"} =>
              /\ olast'.outcome = "raised"
              /\ olast'.sent = 1
              /\ cache' = cache
              /\ stats' = stats]_vars

(***************************************************************************)
(* Part IV: PerformanceMonitor, ThresholdCalibrator,                       *)
(* DynamicComplexityRouter                                                 *)
(*                                                                         *)
(* One router with its monitor and its calibrator, and the log file the    *)
(* monitor writes.  The comments field of a feedback record, which nothing *)
(* reads, is left out.  A log file is modelled by the two lists it holds:  *)
(* a key that is missing reads as the empty list everywhere.               *)
(***************************************************************************)
MinSamples == 1
MaxSelections == 2
MaxFeedback == 2
MaxCalibrations == 2
MaxWriteErrors == 1

(* Config.MODEL.name and Config.COMPLEX_MODEL.name, under which the router *)
(* records its selections                                                  *)
ConfigModel == "llama3.1:8b"
ConfigComplexModel == "mistral:7b"

(* The names under which suggest_threshold looks the backends up *)
CalibratorSimpleModel == "llama3.1:8b"
CalibratorComplexModel == "mistral-nemo:12b"

ModelNames == {ConfigModel, ConfigComplexModel, CalibratorComplexModel}

(* Query texts, complexity scores, ratings and thresholds callers pass *)
RouterQueries == {<<"a">>, <<"t", "r", "a", "i", "n", " ", "t", "o", "p">>}
Complexities == {Hundredths(25), Hundredths(40)}
RatingInputs == {0, 4}
StartThresholds == {Hundredths(25), Hundredths(70)}

Min(a, b) == IF a <= b THEN a ELSE b
Max(a, b) == IF a >= b THEN a ELSE b
Abs(x) == IF x < 0 THEN -x ELSE x

RECURSIVE Sum(_)
Sum(s) == IF s = <<>> THEN 0 ELSE Head(s) + Sum(Tail(s))

(* s.sort(); s[idx], with idx counted from 0 *)
SortedAt(s, idx) ==
    CHOOSE x \in Range(s) :
        /\ Cardinality({i \in DOMAIN s : s[i] < x}) <= idx
        /\ idx < Cardinality({i \in DOMAIN s : s[i] <= x})

(* The variant that stores the rating as passed *)
clamp_rating_as_passed(rating) == rating

RECURSIVE Repeat(_, _)
Repeat(x, n) == IF n = 0 THEN <<>> ELSE <<x>> \o Repeat(x, n - 1)

(* `max(1, min(5, rating))`, line 166 *)
clamp_rating(rating) == Max(1, Min(5, rating))

(* The record record_selection builds, lines 145-150 *)
SelectionRecord(query, complexity, selected_model) ==
    [timestamp |-> now, query |-> query, complexity |-> complexity,
     selected_model |-> selected_model]

(* The record record_feedback builds, lines 163-168 *)
FeedbackRecord(query, rating) ==
    [timestamp |-> now, query |-> query, rating |-> clamp_rating(rating)]

(* _save_metrics, lines 226-235: the file is rewritten with everything the *)
(* monitor holds; an OSError is printed and the file stays as it was.      *)
save_metrics(m, written) == IF written THEN m ELSE log_file

(* A call of _save_metrics by the router's monitor *)
Save(m) ==
    \E written \in BOOLEAN :
        /\ ~written => write_errors < MaxWriteErrors
        /\ log_file' = save_metrics(m, written)
        /\ write_errors' = IF written THEN write_errors ELSE write_errors + 1

(* The variant that keeps the first selection of a text *)
selection_map_first(m) ==
    LET s == m.selections IN
    [q \in {s[i].query : i \in DOMAIN s} |->
        s[CHOOSE i \in DOMAIN s :
              s[i].query = q /\ \A j \in DOMAIN s : s[j].query = q => i <= j]]

(* Lines 182-184: selection_map[text] is the last selection of that text *)
selection_map(m) ==
    LET s == m.selections IN
    [q \in {s[i].query : i \in DOMAIN s} |->
        s[CHOOSE i \in DOMAIN s :
              s[i].query = q /\ \A j \in DOMAIN s : s[j].query = q => j <= i]]

(* get_model_performance_metrics()[model]["ratings"], lines 186-193 *)
ratings(m, model) ==
    LET map == selection_map(m)
        joined == SelectSeq(m.feedback,
                            LAMBDA f : /\ f.query \in DOMAIN map
                                       /\ map[f.query].selected_model = model)
    IN  [i \in 1..Len(joined) |-> joined[i].rating]

(* get_model_performance_metrics, lines 172-208: for each backend that a   *)
(* joined feedback record names, the count, the ratings and the average    *)
(* as <<sum, number>>. The median and the deviation, added from five       *)
(* ratings on, are left out.                                               *)
get_model_performance_metrics(m) ==
    LET map == selection_map(m)
        fb == m.feedback
        joined == {i \in DOMAIN fb : fb[i].query \in DOMAIN map}
        models == {map[fb[i].query].selected_model : i \in joined}
    IN  [model \in models |->
            [count |-> Cardinality({i \in joined :
                                      map[fb[i].query].selected_model = model}),
             ratings |-> ratings(m, model),
             avg_rating |-> <<Sum(ratings(m, model)), Len(ratings(m, model))>>]]

(* The record kept of a completed call of the monitor: what was asked,     *)
(* whether the file was written, whether the call raised and what it       *)
(* returned. _save_metrics catches OSError and prints it (lines 234-235),  *)
(* so no call raises because of a failed write.                            *)
MonitorCall(op, passed, written, result) ==
    [op |-> op, arg |-> passed, written |-> written, raised |-> FALSE,
     result |-> result]

(* get_complexity_distribution()[model], lines 219-222 *)
complexities(m, model) ==
    LET chosen == SelectSeq(m.selections, LAMBDA r : r.selected_model = model)
    IN  [i \in 1..Len(chosen) |-> chosen[i].complexity]

(* Lines 301-310 and 321-330: the step toward the suggested value, capped  *)
(* at max_change and kept in [0.1, 0.5].                                   *)
max_change == Hundredths(5)
MinThreshold == Hundredths(10)
MaxThreshold == Hundredths(50)
(* The variant that always steps by max_change *)
capped_full_step(delta) == IF delta > 0 THEN max_change ELSE -max_change

capped(delta) ==
    IF Abs(delta) > max_change
    THEN IF delta > 0 THEN max_change ELSE -max_change
    ELSE delta
new_threshold(current, suggested) ==
    Max(MinThreshold, Min(MaxThreshold, current + capped(suggested - current)))

NoEvent == [timestamp |-> 0, old_threshold |-> 0, new_threshold |-> 0,
            simple_avg_rating |-> <<0, 1>>, complex_avg_rating |-> <<0, 1>>,
            sample_sizes |-> [simple |-> 0, complex |-> 0]]

(* suggest_threshold, lines 268-345, as a function of the monitor's        *)
(* metrics and of current_threshold: the value returned and the event      *)
(* appended, if any.  An average sum/len is kept as the pair <<sum, len>>. *)
suggest_threshold_result(m, current) ==
    LET simple_ratings == ratings(m, CalibratorSimpleModel)
        complex_ratings == ratings(m, CalibratorComplexModel)
        simple_complexities == complexities(m, CalibratorSimpleModel)
        complex_complexities == complexities(m, CalibratorComplexModel)
    IN  IF Len(simple_ratings) < MinSamples \/ Len(complex_ratings) < MinSamples
        THEN [returned |-> current, appended |-> FALSE, event |-> NoEvent]
        ELSE IF simple_complexities = <<>> \/ complex_complexities = <<>>
        THEN [returned |-> current, appended |-> FALSE, event |-> NoEvent]
        ELSE LET complex_better ==
                     Sum(complex_ratings) * Len(simple_ratings)
                         > Sum(simple_ratings) * Len(complex_ratings)
                 suggested ==
                     IF complex_better
                     THEN SortedAt(simple_complexities,
                                   Min((Len(simple_complexities) * 3) \div 4,
                                       Len(simple_complexities) - 1))
                     ELSE SortedAt(complex_complexities,
                                   Min(Len(complex_complexities) \div 4,
                                       Len(complex_complexities) - 1))
                 new == new_threshold(current, suggested)
             IN  [returned |-> new, appended |-> TRUE,
                  event |->
                    [timestamp |-> now, old_threshold |-> current,
                     new_threshold |-> new,
                     simple_avg_rating |->
                         <<Sum(simple_ratings), Len(simple_ratings)>>,
                     complex_avg_rating |->
                         <<Sum(complex_ratings), Len(complex_ratings)>>,
                     sample_sizes |-> [simple |-> Len(simple_ratings),
                                       complex |-> Len(complex_ratings)]]]

(* The record kept of a completed suggest_threshold call: its number, the  *)
(* threshold it returned and how many records the monitor held.            *)
CalibrationRecord(result) ==
    [n |-> clast.n + 1, returned |-> result.returned,
     records |-> Len(metrics.selections) + Len(metrics.feedback)]

(* What a suggest_threshold call does to the calibrator *)
Calibrate ==
    LET result == suggest_threshold_result(metrics, current_threshold) IN
    /\ current_threshold' = result.returned
    /\ calibration_history' =
           IF result.appended
           THEN Append(calibration_history, result.event)
           ELSE calibration_history
    /\ clast' = CalibrationRecord(result)

(* calibrator.suggest_threshold(monitor), called on its own *)
ThresholdCalibrator_suggest_threshold ==
    /\ rpc = "idle"
    /\ clast.n < MaxCalibrations
    /\ Calibrate
    /\ UNCHANGED <<log_file, write_errors, metrics, threshold,
                   last_calibration, rpc, rquery, rscore, rmodel, rsize, rlast>>
    /\ UNCHANGED <<now, poolVars, cacheVars, optVars, usageVars>>

(* calibrator.apply_calibration(monitor), lines 356-358: suggest_threshold *)
(* and the assignment of what it returned                                  *)
ThresholdCalibrator_apply_calibration ==
    /\ ThresholdCalibrator_suggest_threshold
    /\ current_threshold' = clast'.returned

(* The variant that keeps only the latest selection *)
record_selection_latest(m, query, complexity, selected_model) ==
    [m EXCEPT !.selections = <<SelectionRecord(query, complexity, selected_model)>>]

(* Lines 143-150: self.metrics["selections"].append({...}) *)
record_selection(m, query, complexity, selected_model) ==
    [m EXCEPT !.selections =
        Append(@, SelectionRecord(query, complexity, selected_model))]

(* monitor.record_selection(...), lines 144-152 *)
PerformanceMonitor_record_selection(query, complexity, selected_model) ==
    /\ rpc = "idle"
    /\ Len(metrics.selections) < MaxSelections
    /\ metrics' = record_selection(metrics, query, complexity, selected_model)
    /\ Save(metrics')
    /\ mlast' = MonitorCall("record_selection", <<query, complexity, selected_model>>,
                            write_errors' = write_errors, <<>>)
    /\ UNCHANGED <<current_threshold, calibration_history, threshold,
                   last_calibration, rpc, rquery, rscore, rmodel, rsize, clast,
                   rlast>>
    /\ UNCHANGED <<alast, requestVars, pruneVars, paramVars, singletonVars>>
    /\ UNCHANGED <<now, poolVars, cacheVars, optVars>>

(* monitor.record_feedback(...), lines 162-170 *)
PerformanceMonitor_record_feedback(query, rating) ==
    /\ rpc = "idle"
    /\ Len(metrics.feedback) < MaxFeedback
    /\ metrics' = [metrics EXCEPT !.feedback =
                      Append(@, FeedbackRecord(query, rating))]
    /\ Save(metrics')
    /\ mlast' = MonitorCall("record_feedback", <<query, rating>>,
                            write_errors' = write_errors, <<>>)
    /\ UNCHANGED <<current_threshold, calibration_history, threshold,
                   last_calibration, rpc, rquery, rscore, rmodel, rsize, clast,
                   rlast>>
    /\ UNCHANGED <<alast, requestVars, pruneVars, paramVars, singletonVars>>
    /\ UNCHANGED <<now, poolVars, cacheVars, optVars>>

(* A calibrator and a monitor used through their own methods, from any     *)
(* starting threshold.                                                     *)
InitCalibrator ==
    /\ now = 0
    /\ InitPool
    /\ InitCache({"ComplexityCache"})
    /\ InitOptimizer
    /\ InitRouter({EmptyLog}, StartThresholds)
    /\ InitUsage

NextCalibrator ==
    \/ \E q \in RouterQueries : \E c \in Complexities : \E m \in ModelNames :
          PerformanceMonitor_record_selection(q, c, m)
    \/ \E q \in RouterQueries : \E r \in RatingInputs :
          PerformanceMonitor_record_feedback(q, r)
    \/ ThresholdCalibrator_suggest_threshold
    \/ ThresholdCalibrator_apply_calibration

SpecCalibrator == InitCalibrator /\ [][NextCalibrator]_vars

(***************************************************************************)
(* suggest_threshold called again and again on a monitor that holds enough *)
(* rated selections of both backends and records nothing new               *)
(***************************************************************************)
MaxRepeats == 10

(* The complexities recorded for a backend, in the order recorded *)
RecordedComplexities ==
    {<<Hundredths(5)>>, <<Hundredths(30)>>, <<Hundredths(90)>>,
     <<Hundredths(30), Hundredths(5)>>, <<Hundredths(40), Hundredths(45)>>}

(* A log in which the backends the calibrator looks up were selected with  *)
(* the given complexities, the fast one rated 3 and the accurate one       *)
(* complex_rating, min_samples times each.                                 *)
RatedLog(simple_cx, complex_cx, complex_rating) ==
    [selections |->
        [i \in 1..Len(simple_cx) |->
            [timestamp |-> 0, query |-> <<"a">>, complexity |-> simple_cx[i],
             selected_model |-> CalibratorSimpleModel]]
        \o [i \in 1..Len(complex_cx) |->
            [timestamp |-> 0, query |-> <<"t", "r", "a", "i", "n", " ", "t", "o", "p">>,
             complexity |-> complex_cx[i],
             selected_model |-> CalibratorComplexModel]],
     feedback |->
        Repeat([timestamp |-> 0, query |-> <<"a">>, rating |-> 3], MinSamples)
        \o Repeat([timestamp |-> 0,
                   query |-> <<"t", "r", "a", "i", "n", " ", "t", "o", "p">>,
                   rating |-> complex_rating], MinSamples)]

RatedLogs ==
    {RatedLog(s, c, r) : s \in RecordedComplexities, c \in RecordedComplexities,
                         r \in {2, 4}}

(* calibrator.suggest_threshold(monitor), called once more *)
ThresholdCalibrator_suggest_threshold_again ==
    /\ rpc = "idle"
    /\ clast.n < MaxRepeats
    /\ Calibrate
    /\ UNCHANGED <<log_file, write_errors, metrics, threshold,
                   last_calibration, rpc, rquery, rscore, rmodel, rsize, rlast>>
    /\ UNCHANGED <<now, poolVars, cacheVars, optVars, usageVars>>

InitRepeated ==
    /\ now = 0
    /\ InitPool
    /\ InitCache({"ComplexityCache"})
    /\ InitOptimizer
    /\ InitRouter(RatedLogs, StartThresholds \cup {0})
    /\ InitUsage

NextRepeated == ThresholdCalibrator_suggest_threshold_again

SpecRepeated == InitRepeated /\ [][NextRepeated]_vars

(***************************************************************************)
(* The monitor used on its own                                             *)
(***************************************************************************)
(* Texts that differ in case only, and ratings below, inside and above 1..5 *)
MonitorQueries == {<<"a">>, <<"A">>}
MonitorModels == {ConfigModel, ConfigComplexModel}
MonitorRatings == {0, 3, 6}

(* monitor.get_model_performance_metrics(), lines 172-208 *)
PerformanceMonitor_get_model_performance_metrics ==
    /\ rpc = "idle"
    /\ mlast' = MonitorCall("get_model_performance_metrics", <<>>, FALSE,
                            get_model_performance_metrics(metrics))
    /\ UNCHANGED <<alast, requestVars, pruneVars, paramVars, singletonVars>>
    /\ UNCHANGED <<now, poolVars, cacheVars, optVars, routerVars>>

InitMonitor ==
    /\ now = 0
    /\ InitPool
    /\ InitCache({"ComplexityCache"})
    /\ InitOptimizer
    /\ InitRouter({EmptyLog}, {DefaultThreshold})
    /\ InitUsage

NextMonitor ==
    \/ \E q \in MonitorQueries : \E m \in MonitorModels :
          PerformanceMonitor_record_selection(q, DefaultThreshold, m)
    \/ \E q \in MonitorQueries : \E r \in MonitorRatings :
          PerformanceMonitor_record_feedback(q, r)
    \/ PerformanceMonitor_get_model_performance_metrics

SpecMonitor == InitMonitor /\ [][NextMonitor]_vars

(***************************************************************************)
(* DynamicComplexityRouter                                                 *)
(***************************************************************************)
MaxRoutings == 2
MaxIngress == 1
RouterMaxTime == 1

(* Line 437: timedelta(days=1); the router's clock ticks once a day *)
CalibrationInterval == 1

(***************************************************************************)
(* The text analysis of analyze_complexity and _detect_domain              *)
(***************************************************************************)
Digits == {"0", "1", "2", "3", "4", "5", "6", "7", "8", "9"}

(* \w on the characters in use *)
IsWord(c) == c \in DOMAIN LowerOf \/ c \in Range_LowerOf \/ c \in Digits \/ c = "_"

(* The k-th smallest member of a set of positions *)
Nth(S, k) == CHOOSE i \in S : Cardinality({t \in S : t <= i}) = k

(* The positions where a token starts and where a token ends *)
TokenStarts(q) ==
    {i \in DOMAIN q : ~IsSpace(q[i]) /\ (i = 1 \/ IsSpace(q[i - 1]))}
TokenEnds(q) ==
    {i \in DOMAIN q : ~IsSpace(q[i]) /\ (i = Len(q) \/ IsSpace(q[i + 1]))}

(* str.split(): the maximal runs of characters that are not whitespace *)
split(q) ==
    [k \in 1..Cardinality(TokenStarts(q)) |->
        SubSeq(q, Nth(TokenStarts(q), k), Nth(TokenEnds(q), k))]

(* The positions of the characters that end a sentence *)
SentenceEnds(q) == {i \in DOMAIN q : q[i] \in {".", "!", "?"}}

(* re.split(r"[.!?]", query), line 544 *)
sentences(q) ==
    [k \in 1..(Cardinality(SentenceEnds(q)) + 1) |->
        SubSeq(q,
               IF k = 1 THEN 1 ELSE Nth(SentenceEnds(q), k - 1) + 1,
               IF k > Cardinality(SentenceEnds(q)) THEN Len(q)
               ELSE Nth(SentenceEnds(q), k) - 1)]

(* An expression is a set of alternatives, an alternative a sequence of    *)
(* atoms: a character, or one of the repeated classes below.               *)
RepeatedClasses == {"\\s+", "\\s*", ".+", ".*", "\\w+"}

InClass(atom, c) ==
    IF atom \in {"\\s+", "\\s*"} THEN IsSpace(c)
    ELSE IF atom \in {".+", ".*"} THEN c # "\n"
    ELSE IsWord(c)

MinRepeat(atom) == IF atom \in {"\\s*", ".*"} THEN 0 ELSE 1

(* How many characters of the class follow from position p *)
RECURSIVE RunLength(_, _, _)
RunLength(atom, text, p) ==
    IF p <= Len(text) /\ InClass(atom, text[p])
    THEN 1 + RunLength(atom, text, p + 1)
    ELSE 0

(* Whether the atoms from the k-th on match the text from position p on *)
RECURSIVE MatchHere(_, _, _, _)
MatchHere(atoms, k, text, p) ==
    IF k > Len(atoms) THEN TRUE
    ELSE IF atoms[k] \in RepeatedClasses
    THEN \E n \in MinRepeat(atoms[k])..RunLength(atoms[k], text, p) :
            MatchHere(atoms, k + 1, text, p + n)
    ELSE /\ p <= Len(text)
         /\ text[p] = atoms[k]
         /\ MatchHere(atoms, k + 1, text, p + 1)

(* re.search(expression, text) *)
re_search(expression, text) ==
    \E atoms \in expression : \E p \in 1..(Len(text) + 1) :
        MatchHere(atoms, 1, text, p)

(* The variant that takes the letters' case as written *)
re_search_ignorecase_exact(expression, text) == re_search(expression, text)

(* re.search(expression, text, re.IGNORECASE) *)
re_search_ignorecase(expression, text) ==
    re_search({lower(atoms) : atoms \in expression}, lower(text))

(* COMPLEX_PATTERNS, lines 379-394: each expression as the set of its      *)
(* alternatives                                                            *)
COMPLEX_PATTERNS ==
    <<
      (* trend|pattern|correlation|compare|group by|pivot|predict|forecast *)
      { <<"t", "r", "e", "n", "d">>,
        <<"p", "a", "t", "t", "e", "r", "n">>,
        <<"c", "o", "r", "r", "e", "l", "a", "t", "i", "o", "n">>,
        <<"c", "o", "m", "p", "a", "r", "e">>,
        <<"g", "r", "o", "u", "p", " ", "b", "y">>,
        <<"p", "i", "v", "o", "t">>,
        <<"p", "r", "e", "d", "i", "c", "t">>,
        <<"f", "o", "r", "e", "c", "a", "s", "t">> },
      (* change over time|growth rate|percentage|ratio|proportion *)
      { <<"c", "h", "a", "n", "g", "e", " ", "o", "v", "e", "r", " ", "t",
          "i", "m", "e">>,
        <<"g", "r", "o", "w", "t", "h", " ", "r", "a", "t", "e">>,
        <<"p", "e", "r", "c", "e", "n", "t", "a", "g", "e">>,
        <<"r", "a", "t", "i", "o">>,
        <<"p", "r", "o", "p", "o", "r", "t", "i", "o", "n">> },
      (* rank|top|bottom|percentile|outlier|anomaly|distribution *)
      { <<"r", "a", "n", "k">>,
        <<"t", "o", "p">>,
        <<"b", "o", "t", "t", "o", "m">>,
        <<"p", "e", "r", "c", "e", "n", "t", "i", "l", "e">>,
        <<"o", "u", "t", "l", "i", "e", "r">>,
        <<"a", "n", "o", "m", "a", "l", "y">>,
        <<"d", "i", "s", "t", "r", "i", "b", "u", "t", "i", "o", "n">> },
      (* segment|cohort|category breakdown|detailed analysis *)
      { <<"s", "e", "g", "m", "e", "n", "t">>,
        <<"c", "o", "h", "o", "r", "t">>,
        <<"c", "a", "t", "e", "g", "o", "r", "y", " ", "b", "r", "e", "a",
          "k", "d", "o", "w", "n">>,
        <<"d", "e", "t", "a", "i", "l", "e", "d", " ", "a", "n", "a", "l",
          "y", "s", "i", "s">> },
      (* advanced|complex|sophisticated|in-depth *)
      { <<"a", "d", "v", "a", "n", "c", "e", "d">>,
        <<"c", "o", "m", "p", "l", "e", "x">>,
        <<"s", "o", "p", "h", "i", "s", "t", "i", "c", "a", "t", "e", "d">>,
        <<"i", "n", "-", "d", "e", "p", "t", "h">> },
      (* analyze|insight|metrics|dashboard|visualization|data mining *)
      { <<"a", "n", "a", "l", "y", "z", "e">>,
        <<"i", "n", "s", "i", "g", "h", "t">>,
        <<"m", "e", "t", "r", "i", "c", "s">>,
        <<"d", "a", "s", "h", "b", "o", "a", "r", "d">>,
        <<"v", "i", "s", "u", "a", "l", "i", "z", "a", "t", "i", "o", "n">>,
        <<"d", "a", "t", "a", " ", "m", "i", "n", "i", "n", "g">> },
      (* statistics|statistical|regression|classification|clustering *)
      { <<"s", "t", "a", "t", "i", "s", "t", "i", "c", "s">>,
        <<"s", "t", "a", "t", "i", "s", "t", "i", "c", "a", "l">>,
        <<"r", "e", "g", "r", "e", "s", "s", "i", "o", "n">>,
        <<"c", "l", "a", "s", "s", "i", "f", "i", "c", "a", "t", "i", "o",
          "n">>,
        <<"c", "l", "u", "s", "t", "e", "r", "i", "n", "g">> },
      (* time series|seasonality|benchmark|performance indicator *)
      { <<"t", "i", "m", "e", " ", "s", "e", "r", "i", "e", "s">>,
        <<"s", "e", "a", "s", "o", "n", "a", "l", "i", "t", "y">>,
        <<"b", "e", "n", "c", "h", "m", "a", "r", "k">>,
        <<"p", "e", "r", "f", "o", "r", "m", "a", "n", "c", "e", " ", "i",
          "n", "d", "i", "c", "a", "t", "o", "r">> },
      (* multi-dimensional|cross-tabulation|stratification|aggregation *)
      { <<"m", "u", "l", "t", "i", "-", "d", "i", "m", "e", "n", "s", "i",
          "o", "n", "a", "l">>,
        <<"c", "r", "o", "s", "s", "-", "t", "a", "b", "u", "l", "a", "t",
          "i", "o", "n">>,
        <<"s", "t", "r", "a", "t", "i", "f", "i", "c", "a", "t", "i", "o",
          "n">>,
        <<"a", "g", "g", "r", "e", "g", "a", "t", "i", "o", "n">> }
    >>

(* SQL_COMPLEXITY_MARKERS, lines 397-416 *)
SQL_COMPLEXITY_MARKERS ==
    <<
      (* WITH\s+.+\s+AS *)
      { <<"W", "I", "T", "H", "\\s+", ".+", "\\s+", "A", "S">> },
      (* PARTITION\s+BY *)
      { <<"P", "A", "R", "T", "I", "T", "I", "O", "N", "\\s+", "B", "Y">> },
      (* OVER\s*\( *)
      { <<"O", "V", "E", "R", "\\s*", "(">> },
      (* JOIN.+JOIN *)
      { <<"J", "O", "I", "N", ".+", "J", "O", "I", "N">> },
      (* CASE\s+WHEN *)
      { <<"C", "A", "S", "E", "\\s+", "W", "H", "E", "N">> },
      (* UNION|INTERSECT|EXCEPT *)
      { <<"U", "N", "I", "O", "N">>,
        <<"I", "N", "T", "E", "R", "S", "E", "C", "T">>,
        <<"E", "X", "C", "E", "P", "T">> },
      (* GROUP\s+BY.+HAVING *)
      { <<"G", "R", "O", "U", "P", "\\s+", "B", "Y", ".+", "H", "A", "V",
          "I", "N", "G">> },
      (* ROW_NUMBER\(\)|RANK\(\)|DENSE_RANK\(\) *)
      { <<"R", "O", "W", "_", "N", "U", "M", "B", "E", "R", "(", ")">>,
        <<"R", "A", "N", "K", "(", ")">>,
        <<"D", "E", "N", "S", "E", "_", "R", "A", "N", "K", "(", ")">> },
      (* COALESCE|NULLIF|ISNULL *)
      { <<"C", "O", "A", "L", "E", "S", "C", "E">>,
        <<"N", "U", "L", "L", "I", "F">>,
        <<"I", "S", "N", "U", "L", "L">> },
      (* SUBSTRING|REPLACE|UPPER|LOWER *)
      { <<"S", "U", "B", "S", "T", "R", "I", "N", "G">>,
        <<"R", "E", "P", "L", "A", "C", "E">>,
        <<"U", "P", "P", "E", "R">>,
        <<"L", "O", "W", "E", "R">> },
      (* EXTRACT|DATE_PART|DATEADD *)
      { <<"E", "X", "T", "R", "A", "C", "T">>,
        <<"D", "A", "T", "E", "_", "P", "A", "R", "T">>,
        <<"D", "A", "T", "E", "A", "D", "D">> },
      (* LAG\(\)|LEAD\(\)|FIRST_VALUE\(\)|LAST_VALUE\(\) *)
      { <<"L", "A", "G", "(", ")">>,
        <<"L", "E", "A", "D", "(", ")">>,
        <<"F", "I", "R", "S", "T", "_", "V", "A", "L", "U", "E", "(", ")">>,
        <<"L", "A", "S", "T", "_", "V", "A", "L", "U", "E", "(", ")">> },
      (* CUBE|ROLLUP *)
      { <<"C", "U", "B", "E">>,
        <<"R", "O", "L", "L", "U", "P">> },
      (* PIVOT|UNPIVOT *)
      { <<"P", "I", "V", "O", "T">>,
        <<"U", "N", "P", "I", "V", "O", "T">> },
      (* RECURSIVE *)
      { <<"R", "E", "C", "U", "R", "S", "I", "V", "E">> },
      (* JSON_.*\(\)|XML_.*\(\) *)
      { <<"J", "S", "O", "N", "_", ".*", "(", ")">>,
        <<"X", "M", "L", "_", ".*", "(", ")">> },
      (* PERCENTILE_.*\(\) *)
      { <<"P", "E", "R", "C", "E", "N", "T", "I", "L", "E", "_", ".*", "(",
          ")">> }
    >>

(* The domains in the order of the dictionary, lines 448-473 *)
domain_order == <<"sql", "data_science", "reporting", "simple_lookup">>

(* domain_patterns, lines 448-473: for each domain its list of expressions, *)
(* each expression as the set of its alternatives; the optional group that *)
(* ends the second sql expression does not change whether it is found      *)
domain_patterns ==
    [sql |->
    <<
      (* SELECT|INSERT|UPDATE|DELETE|CREATE|ALTER|DROP *)
      { <<"S", "E", "L", "E", "C", "T">>,
        <<"I", "N", "S", "E", "R", "T">>,
        <<"U", "P", "D", "A", "T", "E">>,
        <<"D", "E", "L", "E", "T", "E">>,
        <<"C", "R", "E", "A", "T", "E">>,
        <<"A", "L", "T", "E", "R">>,
        <<"D", "R", "O", "P">> },
      (* FROM\s+\w+(\s+JOIN)? *)
      { <<"F", "R", "O", "M", "\\s+", "\\w+">> },
      (* WHERE\s+\w+ *)
      { <<"W", "H", "E", "R", "E", "\\s+", "\\w+">> },
      (* GROUP BY|ORDER BY|HAVING *)
      { <<"G", "R", "O", "U", "P", " ", "B", "Y">>,
        <<"O", "R", "D", "E", "R", " ", "B", "Y">>,
        <<"H", "A", "V", "I", "N", "G">> }
    >>,
     data_science |->
    <<
      (* machine learning|neural network|deep learning|AI|artificial intelligence *)
      { <<"m", "a", "c", "h", "i", "n", "e", " ", "l", "e", "a", "r", "n",
          "i", "n", "g">>,
        <<"n", "e", "u", "r", "a", "l", " ", "n", "e", "t", "w", "o", "r",
          "k">>,
        <<"d", "e", "e", "p", " ", "l", "e", "a", "r", "n", "i", "n", "g">>,
        <<"A", "I">>,
        <<"a", "r", "t", "i", "f", "i", "c", "i", "a", "l", " ", "i", "n",
          "t", "e", "l", "l", "i", "g", "e", "n", "c", "e">> },
      (* regression|classification|clustering|NLP|natural language processing *)
      { <<"r", "e", "g", "r", "e", "s", "s", "i", "o", "n">>,
        <<"c", "l", "a", "s", "s", "i", "f", "i", "c", "a", "t", "i", "o",
          "n">>,
        <<"c", "l", "u", "s", "t", "e", "r", "i", "n", "g">>,
        <<"N", "L", "P">>,
        <<"n", "a", "t", "u", "r", "a", "l", " ", "l", "a", "n", "g", "u",
          "a", "g", "e", " ", "p", "r", "o", "c", "e", "s", "s", "i", "n",
          "g">> },
      (* train|model|algorithm|feature|dataset|prediction|accuracy *)
      { <<"t", "r", "a", "i", "n">>,
        <<"m", "o", "d", "e", "l">>,
        <<"a", "l", "g", "o", "r", "i", "t", "h", "m">>,
        <<"f", "e", "a", "t", "u", "r", "e">>,
        <<"d", "a", "t", "a", "s", "e", "t">>,
        <<"p", "r", "e", "d", "i", "c", "t", "i", "o", "n">>,
        <<"a", "c", "c", "u", "r", "a", "c", "y">> },
      (* correlation|causation|hypothesis|confidence interval|p-value *)
      { <<"c", "o", "r", "r", "e", "l", "a", "t", "i", "o", "n">>,
        <<"c", "a", "u", "s", "a", "t", "i", "o", "n">>,
        <<"h", "y", "p", "o", "t", "h", "e", "s", "i", "s">>,
        <<"c", "o", "n", "f", "i", "d", "e", "n", "c", "e", " ", "i", "n",
          "t", "e", "r", "v", "a", "l">>,
        <<"p", "-", "v", "a", "l", "u", "e">> }
    >>,
     reporting |->
    <<
      (* report|dashboard|visualization|chart|graph|plot *)
      { <<"r", "e", "p", "o", "r", "t">>,
        <<"d", "a", "s", "h", "b", "o", "a", "r", "d">>,
        <<"v", "i", "s", "u", "a", "l", "i", "z", "a", "t", "i", "o", "n">>,
        <<"c", "h", "a", "r", "t">>,
        <<"g", "r", "a", "p", "h">>,
        <<"p", "l", "o", "t">> },
      (* KPI|key performance indicator|metric|measure|benchmark *)
      { <<"K", "P", "I">>,
        <<"k", "e", "y", " ", "p", "e", "r", "f", "o", "r", "m", "a", "n",
          "c", "e", " ", "i", "n", "d", "i", "c", "a", "t", "o", "r">>,
        <<"m", "e", "t", "r", "i", "c">>,
        <<"m", "e", "a", "s", "u", "r", "e">>,
        <<"b", "e", "n", "c", "h", "m", "a", "r", "k">> },
      (* daily|weekly|monthly|quarterly|yearly|annual *)
      { <<"d", "a", "i", "l", "y">>,
        <<"w", "e", "e", "k", "l", "y">>,
        <<"m", "o", "n", "t", "h", "l", "y">>,
        <<"q", "u", "a", "r", "t", "e", "r", "l", "y">>,
        <<"y", "e", "a", "r", "l", "y">>,
        <<"a", "n", "n", "u", "a", "l">> },
      (* trend|comparison|breakdown|summary *)
      { <<"t", "r", "e", "n", "d">>,
        <<"c", "o", "m", "p", "a", "r", "i", "s", "o", "n">>,
        <<"b", "r", "e", "a", "k", "d", "o", "w", "n">>,
        <<"s", "u", "m", "m", "a", "r", "y">> }
    >>,
     simple_lookup |->
    <<
      (* find|get|retrieve|show|list|display *)
      { <<"f", "i", "n", "d">>,
        <<"g", "e", "t">>,
        <<"r", "e", "t", "r", "i", "e", "v", "e">>,
        <<"s", "h", "o", "w">>,
        <<"l", "i", "s", "t">>,
        <<"d", "i", "s", "p", "l", "a", "y">> },
      (* lookup|search|select *)
      { <<"l", "o", "o", "k", "u", "p">>,
        <<"s", "e", "a", "r", "c", "h">>,
        <<"s", "e", "l", "e", "c", "t">> },
      (* simple|basic|quick *)
      { <<"s", "i", "m", "p", "l", "e">>,
        <<"b", "a", "s", "i", "c">>,
        <<"q", "u", "i", "c", "k">> },
      (* single|one|individual *)
      { <<"s", "i", "n", "g", "l", "e">>,
        <<"o", "n", "e">>,
        <<"i", "n", "d", "i", "v", "i", "d", "u", "a", "l">> }
    >>]

(* The number of expressions of a list that are found in the text *)
matches_ignorecase(patterns, text) ==
    Cardinality({i \in DOMAIN patterns : re_search_ignorecase(patterns[i], text)})

(* Lines 495-502: the first domain in order whose share of expressions     *)
(* found is above 0.3 and above the share of every domain before it. A     *)
(* share is the pair <<found, expressions>>.                               *)
RECURSIVE best_domain(_, _, _, _)
best_domain(query, k, best, best_score) ==
    IF k > Len(domain_order) THEN best
    ELSE LET patterns == domain_patterns[domain_order[k]]
             found == matches_ignorecase(patterns, query)
         IN  IF found * best_score[2] > best_score[1] * Len(patterns)
             THEN best_domain(query, k + 1, domain_order[k], <<found, Len(patterns)>>)
             ELSE best_domain(query, k + 1, best, best_score)

(* _detect_domain, lines 475-504 *)
detect_domain(query) == best_domain(query, 1, "None", <<3, 10>>)

(* Lines 527, 530-533, 537-540, 543-546 and 555: the counts the scores are *)
(* computed from.                                                          *)
extract_features(query) ==
    [token_count |-> Len(split(query)),
     pattern_matches |->
         Cardinality({i \in DOMAIN COMPLEX_PATTERNS :
                        re_search(COMPLEX_PATTERNS[i], lower(query))}),
     sql_markers |-> matches_ignorecase(SQL_COMPLEXITY_MARKERS, query),
     words |-> Sum([i \in DOMAIN sentences(query) |-> Len(split(sentences(query)[i]))]),
     sentences |-> Len(sentences(query)),
     domain |-> detect_domain(query)]

(* The two scenario queries *)
SelectAllFromOrders ==
    <<"S", "E", "L", "E", "C", "T", " ", "*", " ", "F", "R", "O", "M", " ",
      "o", "r", "d", "e", "r", "s">>

TrendQuery ==
    <<"s", "h", "o", "w", " ", "m", "e", " ", "t", "h", "e", " ", "t", "r",
      "e", "n", "d", " ", "a", "n", "d", " ", "c", "o", "r", "r", "e", "l",
      "a", "t", "i", "o", "n", " ", "b", "e", "t", "w", "e", "e", "n", " ",
      "m", "o", "n", "t", "h", "l", "y", " ", "r", "e", "v", "e", "n", "u",
      "e", " ", "a", "n", "d", " ", "c", "u", "s", "t", "o", "m", "e", "r",
      " ", "s", "e", "g", "m", "e", "n", "t", " ", "u", "s", "i", "n", "g",
      " ", "a", " ", "w", "i", "n", "d", "o", "w", " ", "f", "u", "n", "c",
      "t", "i", "o", "n", " ", "r", "a", "n", "k", "i", "n", "g">>

(* A query of 51 tokens: "a a a ... a" *)
LongQuery == [i \in 1..101 |-> IF i % 2 = 1 THEN "a" ELSE " "]

(* The texts analysed: blank ones, texts that differ in case or in the     *)
(* whitespace around them, the scenario queries, a lookup, a statement     *)
(* with a set operation and a text of two sentences.                       *)
AnalyzedQueries ==
    RouterQueries
      \cup {<<>>, <<" ", " ">>, <<"\t", "\n">>,
            <<"A">>, <<" ", "a", " ">>,
            <<"T", "r", "a", "i", "n", " ", "T", "o", "p">>,
            SelectAllFromOrders, lower(SelectAllFromOrders),
            TrendQuery,
            <<"g", "e", "t", " ", "o", "n", "e">>,
            <<"U", "N", "I", "O", "N">>, <<"u", "n", "i", "o", "n">>,
            <<"a", ".", " ", "b">>,
            <<"a", " ", "b", ".">>,
            LongQuery}

(* The features of the texts analysed, computed once *)
FeaturesOf == {<<q, extract_features(q)>> : q \in AnalyzedQueries}

QueryFeatures(query) == (CHOOSE p \in FeaturesOf : p[1] = query)[2]

(* Lines 440-445, in units of 1/One *)
domain_modifiers ==
    [sql |-> Hundredths(15), data_science |-> Hundredths(20),
     reporting |-> Hundredths(10), simple_lookup |-> -Hundredths(5)]

(* The variant that leaves the dimensions uncapped *)
dimensions_uncapped(f) ==
    [length |-> <<f.token_count, 50>>,
     patterns |-> <<f.pattern_matches, 9>>,
     sql_complexity |-> <<f.sql_markers, 17>>,
     cognitive_load |-> <<f.words, 20 * Max(f.sentences, 1)>>]

(* Lines 523-548: each dimension as the fraction <<numerator, denominator>>, *)
(* from the counts f                                                        *)
dimensions_capped(f) ==
    [length |-> <<Min(f.token_count, 50), 50>>,
     patterns |-> <<Min(f.pattern_matches, 9), 9>>,
     sql_complexity |-> <<Min(f.sql_markers, 17), 17>>,
     cognitive_load |-> <<Min(f.words, 20 * Max(f.sentences, 1)),
                          20 * Max(f.sentences, 1)>>]

dimensions(query) == dimensions_capped(QueryFeatures(query))

(* Line 551, in thousandths *)
weights == [length |-> 150, patterns |-> 450, sql_complexity |-> 300,
            cognitive_load |-> 100]

(* Lines 552-558: the weighted sum and the domain modifier *)
(* The variant that adds the modifier without keeping the sum in [0, 1] *)
weighted_score_unclamped(d, domain) ==
    LET term(dim) == (weights[dim] * (One \div 1000) * d[dim][1]) \div d[dim][2]
        weighted == term("length") + term("patterns") + term("sql_complexity")
                      + term("cognitive_load")
    IN  IF domain \in DOMAIN domain_modifiers
        THEN weighted + domain_modifiers[domain]
        ELSE weighted

(* Lines 550-558: the weighted sum of the dimensions d, then the modifier  *)
(* of the detected domain, kept in [0, 1]                                  *)
weighted_score(d, domain) ==
    LET term(dim) == (weights[dim] * (One \div 1000) * d[dim][1]) \div d[dim][2]
        weighted == term("length") + term("patterns") + term("sql_complexity")
                      + term("cognitive_load")
    IN  IF domain \in DOMAIN domain_modifiers
        THEN Min(Max(weighted + domain_modifiers[domain], 0), One)
        ELSE weighted

overall_score(query) == weighted_score(dimensions(query), QueryFeatures(query).domain)

(* ComplexityCache.get, lines 59-84, as a function of the dictionary *)
ComplexityCache_get_result(c, query) ==
    LET key == ComplexityCache_generate_key(query) IN
    IF key \notin Keys(c)
    THEN [hit |-> FALSE, val |-> None, cache |-> c]
    ELSE LET e == Lookup(c, key) IN
         IF is_expired(e.timestamp)
         THEN [hit |-> FALSE, val |-> None, cache |-> Without(c, key)]
         ELSE [hit |-> TRUE, val |-> e.value, cache |-> move_to_end(c, key)]

(* ComplexityCache.set, lines 86-102, as a function of the dictionary *)
ComplexityCache_set_result(c, query, result) ==
    LET key == ComplexityCache_generate_key(query)
        stored == move_to_end(
                     dict_setitem(c, [key |-> key, timestamp |-> now, value |-> result]),
                     key)
    IN  IF Len(stored) > MaxSize THEN popitem_first(stored) ELSE stored

(* Lines 561-563: the computed result is stored and returned *)
stored_analysis(c, query, result) ==
    [result |-> result, cache |-> ComplexityCache_set_result(c, query, result)]

(* analyze_complexity, lines 518-564: the cached result when there is one  *)
(* (a stored result is a non-empty tuple, so `if cached_result` is the     *)
(* hit), else the computed one, which is stored; with the cache it leaves. *)
analyze_complexity(c, query) ==
    LET cached_result == ComplexityCache_get_result(c, query) IN
    IF cached_result.hit
    THEN [result |-> cached_result.val, cache |-> cached_result.cache]
    ELSE stored_analysis(cached_result.cache, query,
                         <<overall_score(query), dimensions(query)>>)

(* The variant that keeps a score equal to the threshold on the fast model *)
use_complex_model_strict(complexity_score, t) == complexity_score > t

(* Line 599 *)
use_complex_model(complexity_score, t) == complexity_score >= t

(* The record kept of a completed get_appropriate_model call; whether the  *)
(* call ran a calibration is noted when it decides.                        *)
RoutingRecord ==
    [n |-> rlast.n + 1, query |-> rquery, score |-> rscore,
     threshold |-> threshold, model |-> rmodel,
     calibrated |-> rlast.calibrated]

(* get_appropriate_model, lines 590-600: the analysis, the calibration     *)
(* when it is due, and the decision.                                       *)
get_appropriate_model_decide(query) ==
    /\ rpc = "idle"
    /\ rlast.n < MaxRoutings
    /\ cls = "ComplexityCache"
    /\ LET analysis == analyze_complexity(cache, query)
           complexity_score == analysis.result[1]
       IN  /\ cache' = analysis.cache
           /\ rscore' = complexity_score
           /\ IF now - last_calibration >= CalibrationInterval
              THEN /\ Calibrate
                   /\ threshold' = clast'.returned
                   /\ last_calibration' = now
              ELSE UNCHANGED <<current_threshold, calibration_history, clast,
                               threshold, last_calibration>>
           /\ rmodel' = IF use_complex_model(complexity_score, threshold')
                        THEN ConfigComplexModel
                        ELSE ConfigModel
    /\ rquery' = query
    /\ rsize' = Len(metrics.selections)
    /\ rpc' = "decided"
    /\ rlast' = [rlast EXCEPT !.calibrated =
                    now - last_calibration >= CalibrationInterval]
    /\ UNCHANGED <<log_file, write_errors, metrics>>
    /\ UNCHANGED <<cls, cacheLock, cpc, ckey, cent, last, accessOrder>>
    /\ UNCHANGED <<now, poolVars, optVars, usageVars>>

(* Lines 603-609: self.monitor.record_selection(query, complexity_score,   *)
(* selected_model), then create_llm, and the call is over.                 *)
get_appropriate_model_record ==
    /\ rpc = "decided"
    /\ metrics' = record_selection(metrics, rquery, rscore, rmodel)
    /\ Save(metrics')
    /\ rlast' = RoutingRecord
    /\ rpc' = "idle"
    /\ rquery' = NoKey
    /\ rscore' = 0
    /\ rmodel' = ""
    /\ rsize' = 0
    /\ UNCHANGED <<current_threshold, calibration_history, threshold,
                   last_calibration, clast>>
    /\ UNCHANGED <<now, poolVars, cacheVars, optVars, usageVars>>

(* The ratings that come in while the router runs *)
IngressRatings == {4}

(* record_query_feedback, lines 911-915: a monitor of its own is opened on *)
(* the same log file, the feedback is appended to what it loaded and the   *)
(* file is rewritten. A write that fails is swallowed and leaves           *)
(* everything as it was, so only the successful call is a step. The        *)
(* router's monitor never records feedback itself: its list is the one it  *)
(* loaded, and the file holds at most MaxIngress more.                     *)
record_query_feedback(query, rating) ==
    /\ Len(log_file.feedback) < Len(metrics.feedback) + MaxIngress
    /\ LET monitor == load_metrics(log_file) IN
       log_file' = [monitor EXCEPT !.feedback =
                       Append(@, FeedbackRecord(query, rating))]
    /\ UNCHANGED <<write_errors, metrics, current_threshold, calibration_history,
                   threshold, last_calibration, rpc, rquery, rscore, rmodel, rsize,
                   clast, rlast>>
    /\ UNCHANGED <<now, poolVars, cacheVars, optVars, usageVars>>

(* Time passes between the router's steps. *)
TickRouter ==
    /\ now < RouterMaxTime
    /\ now' = now + 1
    /\ UNCHANGED <<poolVars, cacheVars, optVars, routerVars, usageVars>>

(* A log written by an earlier run: one selection of each backend the      *)
(* calibrator knows, each rated min_samples times.                         *)
OldLog(simple_rating, complex_rating) ==
    [selections |->
        <<[timestamp |-> 0, query |-> <<"t", "r", "a", "i", "n", " ", "t", "o", "p">>,
           complexity |-> overall_score(<<"t", "r", "a", "i", "n", " ", "t", "o", "p">>),
           selected_model |-> CalibratorSimpleModel],
          [timestamp |-> 0, query |-> <<"A">>, complexity |-> Hundredths(40),
           selected_model |-> CalibratorComplexModel]>>,
     feedback |->
        Repeat([timestamp |-> 0,
                query |-> <<"t", "r", "a", "i", "n", " ", "t", "o", "p">>,
                rating |-> simple_rating], MinSamples)
        \o Repeat([timestamp |-> 0, query |-> <<"A">>, rating |-> complex_rating],
                  MinSamples)]

(* No log, one whose ratings favour the fast backend and one whose ratings *)
(* favour the accurate one.                                                *)
PriorLogs == {EmptyLog, OldLog(4, 2), OldLog(2, 4)}

(* A router constructed with any threshold on any prior log, routing       *)
(* queries while feedback comes in.                                        *)
InitRouting ==
    /\ now = 0
    /\ InitPool
    /\ InitCache({"ComplexityCache"})
    /\ InitOptimizer
    /\ InitRouter(PriorLogs, StartThresholds)
    /\ InitUsage

NextRouter ==
    \/ \E q \in RouterQueries : get_appropriate_model_decide(q)
    \/ get_appropriate_model_record
    \/ \E q \in RouterQueries : \E r \in IngressRatings : record_query_feedback(q, r)
    \/ TickRouter

SpecRouter == InitRouting /\ [][NextRouter]_vars

(***************************************************************************)
(* From feedback to calibration: a default router started on the log an    *)
(* earlier run of this router and of the feedback ingress left behind      *)
(***************************************************************************)
(* The log after get_appropriate_model routed one query to each backend    *)
(* and record_query_feedback rated the fast one min_samples times and the  *)
(* accurate one complex_samples times.                                     *)
RouterLog(complex_samples) ==
    [selections |->
        <<[timestamp |-> 0, query |-> <<"a">>,
           complexity |-> overall_score(<<"a">>),
           selected_model |-> ConfigModel],
          [timestamp |-> 0, query |-> <<"t", "r", "a", "i", "n", " ", "t", "o", "p">>,
           complexity |-> overall_score(<<"t", "r", "a", "i", "n", " ", "t", "o", "p">>),
           selected_model |-> ConfigComplexModel]>>,
     feedback |->
        Repeat([timestamp |-> 0, query |-> <<"a">>, rating |-> 3], MinSamples)
        \o Repeat([timestamp |-> 0,
                   query |-> <<"t", "r", "a", "i", "n", " ", "t", "o", "p">>,
                   rating |-> 5], complex_samples)]

(* No log, the log with the accurate backend still unrated, and the log    *)
(* with both backends rated.                                               *)
RouterLogs == {EmptyLog, RouterLog(0), RouterLog(MinSamples)}

InitFeedbackLoop ==
    /\ now = 0
    /\ InitPool
    /\ InitCache({"ComplexityCache"})
    /\ InitOptimizer
    /\ InitRouter(RouterLogs, {DefaultThreshold})
    /\ InitUsage

SpecFeedbackLoop == InitFeedbackLoop /\ [][NextRouter]_vars

(***************************************************************************)
(* The analyzer called on its own, and the scenario queries analysed and   *)
(* routed by a default router                                              *)
(***************************************************************************)
MaxAnalyses == 2

ScenarioQueries == {SelectAllFromOrders, TrendQuery}

(* router.analyze_complexity(query), lines 506-564; the record keeps the   *)
(* query, what was returned, whether the cache served it and the query of  *)
(* the call before.                                                        *)
DynamicComplexityRouter_analyze_complexity(query) ==
    /\ rpc = "idle"
    /\ alast.n < MaxAnalyses
    /\ cls = "ComplexityCache"
    /\ LET analysis == analyze_complexity(cache, query) IN
       /\ cache' = analysis.cache
       /\ alast' = [n |-> alast.n + 1, query |-> query, result |-> analysis.result,
                    hit |-> ComplexityCache_get_result(cache, query).hit,
                    before |-> alast.query]
    /\ UNCHANGED <<mlast, requestVars, pruneVars, paramVars, singletonVars>>
    /\ UNCHANGED <<cls, cacheLock, cpc, ckey, cent, last, accessOrder>>
    /\ UNCHANGED <<now, poolVars, optVars, routerVars>>

(* DynamicComplexityRouter() on a new log *)
InitAnalyzer ==
    /\ now = 0
    /\ InitPool
    /\ InitCache({"ComplexityCache"})
    /\ InitOptimizer
    /\ InitRouter({EmptyLog}, {DefaultThreshold})
    /\ InitUsage

NextAnalyzer ==
    \/ \E q \in AnalyzedQueries : DynamicComplexityRouter_analyze_complexity(q)
    \/ TickRouter

SpecAnalyzer == InitAnalyzer /\ [][NextAnalyzer]_vars

NextScenario ==
    \/ \E q \in ScenarioQueries : DynamicComplexityRouter_analyze_complexity(q)
    \/ \E q \in ScenarioQueries : get_appropriate_model_decide(q)
    \/ get_appropriate_model_record
    \/ TickRouter

SpecScenario == InitAnalyzer /\ [][NextScenario]_vars

(***************************************************************************)
(* Requests that share one router                                          *)
(*                                                                         *)
(* get_appropriate_model takes no lock: between reading the clock with the *)
(* test of line 594 and the assignments of lines 595-596 another request   *)
(* on the same router can run.                                             *)
(***************************************************************************)
Requesting == {t \in Callers : tpc[t] # "idle"}

(* Lines 590-594: the analysis, now = datetime.now() and the test whether  *)
(* a calibration is due.                                                   *)
request_check(t, query) ==
    /\ tpc[t] = "idle"
    /\ rlast.n + Cardinality(Requesting) < MaxRoutings
    /\ cls = "ComplexityCache"
    /\ cache' = analyze_complexity(cache, query).cache
    /\ tq' = [tq EXCEPT ![t] = query]
    /\ tnow' = [tnow EXCEPT ![t] = now]
    /\ tpc' = [tpc EXCEPT ![t] =
                  IF now - last_calibration >= CalibrationInterval
                  THEN "calibrating"
                  ELSE "deciding"]
    /\ UNCHANGED <<routerVars, invoked, analysisVars, pruneVars, paramVars, singletonVars>>
    /\ UNCHANGED <<cls, cacheLock, cpc, ckey, cent, last, accessOrder>>
    /\ UNCHANGED <<now, poolVars, optVars>>

(* Lines 595-596: self.threshold = self.calibrator.suggest_threshold(      *)
(* self.monitor); self._last_calibration = now, the time read before.      *)
request_calibrate(t) ==
    /\ tpc[t] = "calibrating"
    /\ Calibrate
    /\ threshold' = clast'.returned
    /\ last_calibration' = tnow[t]
    /\ invoked' = Append(invoked, now)
    /\ tpc' = [tpc EXCEPT ![t] = "deciding"]
    /\ UNCHANGED <<log_file, write_errors, metrics, rpc, rquery, rscore, rmodel,
                   rsize, rlast>>
    /\ UNCHANGED <<tq, tnow, analysisVars, pruneVars, paramVars, singletonVars>>
    /\ UNCHANGED <<now, poolVars, cacheVars, optVars>>

(* Lines 599-609: the decision, record_selection and the return. The score *)
(* is the one line 590 computed for the request's query.                   *)
request_decide(t) ==
    /\ tpc[t] = "deciding"
    /\ LET complexity_score == overall_score(tq[t])
           selected_model == IF use_complex_model(complexity_score, threshold)
                             THEN ConfigComplexModel
                             ELSE ConfigModel
       IN  /\ metrics' = record_selection(metrics, tq[t], complexity_score,
                                          selected_model)
           /\ rlast' = [n |-> rlast.n + 1, query |-> tq[t],
                        score |-> complexity_score, threshold |-> threshold,
                        model |-> selected_model,
                        calibrated |-> tnow[t] = last_calibration /\ tnow[t] > 0]
    /\ Save(metrics')
    /\ tpc' = [tpc EXCEPT ![t] = "idle"]
    /\ tq' = [tq EXCEPT ![t] = NoKey]
    /\ tnow' = [tnow EXCEPT ![t] = 0]
    /\ UNCHANGED <<current_threshold, calibration_history, threshold,
                   last_calibration, rpc, rquery, rscore, rmodel, rsize, clast>>
    /\ UNCHANGED <<invoked, analysisVars, pruneVars, paramVars, singletonVars>>
    /\ UNCHANGED <<now, poolVars, cacheVars, optVars>>

(* A default router on any prior log, with no request in progress. *)
InitRequests ==
    /\ now = 0
    /\ InitPool
    /\ InitCache({"ComplexityCache"})
    /\ InitOptimizer
    /\ InitRouter(PriorLogs, {DefaultThreshold})
    /\ alast = NoAnalysis
    /\ mlast = NoMonitorCall
    /\ tpc = [t \in Callers |-> "idle"]
    /\ tq = [t \in Callers |-> NoKey]
    /\ tnow = [t \in Callers |-> 0]
    /\ invoked = <<>>
    /\ messages = <<>>
    /\ max_messages = 0
    /\ pruned = NotPruned
    /\ InitParams({0}, {<<>>})
    /\ InitSingleton

NextRequests ==
    \/ \E t \in Callers : \E q \in RouterQueries : request_check(t, q)
    \/ \E t \in Callers : request_calibrate(t)
    \/ \E t \in Callers : request_decide(t)
    \/ TickRouter

SpecRequests == InitRequests /\ [][NextRequests]_vars

(***************************************************************************)
(* TokenOptimizationPipeline.prune_conversation_context, lines 770-838     *)
(*                                                                         *)
(* A message is an object with a type and a content; id stands for the     *)
(* object's identity and is its position in the list that was passed.      *)
(* Message objects are true in a condition. The final scores are compared  *)
(* as exact fractions.                                                     *)
(***************************************************************************)
MaxMessages == 3
MaxBudget == 2

MessageTypes == {"system", "human"}
MessageContents == {<<>>, <<"a">>, <<"A", " ", "b">>, <<"c">>}

(* The lists of up to MaxMessages messages *)
Conversations ==
    UNION {[1..n -> MessageTypes \X MessageContents] : n \in 0..MaxMessages}

Conversation(c) ==
    [i \in DOMAIN c |-> [id |-> i, type |-> c[i][1], content |-> c[i][2]]]

(* Lines 784 and 785 *)
IsSystem(msg) == msg.type = "system"
IsNotSystem(msg) == msg.type # "system"
system_messages(msgs) == SelectSeq(msgs, IsSystem)
non_system_messages(msgs) == SelectSeq(msgs, IsNotSystem)

(* Lines 806-813: the relevance of a content to the last content, as the   *)
(* fraction <<overlap, max(len, len)>>                                     *)
relevance(content, last_content) ==
    LET words_last == Range(split(lower(last_content)))
        words_this == Range(split(lower(content)))
    IN  IF words_this = {} \/ words_last = {} THEN <<0, 1>>
        ELSE <<Cardinality(words_this \cap words_last),
               Max(Cardinality(words_this), Cardinality(words_last))>>

(* Lines 816-819: 10 times the final score of the i-th message, counted    *)
(* from 1, as a fraction                                                   *)
final_score(ns, i) ==
    LET r == relevance(ns[i].content, ns[Len(ns)].content) IN
    <<7 * r[1] * Len(ns) + 3 * i * r[2], r[2] * Len(ns)>>

(* Line 823: the number of messages that stand before the i-th after the   *)
(* sort; the sort keeps the order of equal scores                          *)
rank(ns, i) ==
    LET a == final_score(ns, i) IN
    Cardinality({j \in 1..(Len(ns) - 1) :
        LET b == final_score(ns, j) IN
        \/ b[1] * a[2] > a[1] * b[2]
        \/ b[1] * a[2] = a[1] * b[2] /\ j < i})

(* The length of s[:stop] for a list of length len *)
slice_to(len, stop) ==
    IF stop >= 0 THEN Min(stop, len) ELSE Max(len + stop, 0)

(* s[-n:] *)
slice_last(s, n) ==
    LET start == IF n > 0 THEN Max(Len(s) - n, 0) ELSE Min(-n, Len(s)) IN
    SubSeq(s, start + 1, Len(s))

(* Line 830 alone: the selected messages in their original order *)
pruned_non_system_selected(ns, budget) ==
    LET k == slice_to(Len(ns) - 1, budget - 1)
        IsSelected(msg) ==
            \E i \in 1..(Len(ns) - 1) : ns[i] = msg /\ rank(ns, i) < k
    IN  SelectSeq(ns, IsSelected)

(* Lines 826-831 *)
pruned_non_system(ns, budget) ==
    Append(pruned_non_system_selected(ns, budget), ns[Len(ns)])

(* Lines 784-838 *)
prune_result(msgs, budget) ==
    LET ns == non_system_messages(msgs) IN
    IF Len(ns) <= budget THEN msgs
    ELSE IF ns # <<>>
         THEN system_messages(msgs) \o pruned_non_system(ns, budget)
         ELSE system_messages(msgs) \o slice_last(ns, budget)

prune_conversation_context ==
    /\ ~pruned.done
    /\ pruned' = [done |-> TRUE, result |-> prune_result(messages, max_messages)]
    /\ UNCHANGED <<now, poolVars, cacheVars, optVars, routerVars, analysisVars,
                   requestVars, messages, max_messages, paramVars, singletonVars>>

(* The caller may pass any list and any budget, a budget below 0 too. *)
InitPrune ==
    /\ now = 0
    /\ InitPool
    /\ InitCache({"ComplexityCache"})
    /\ InitOptimizer
    /\ InitRouter({EmptyLog}, {DefaultThreshold})
    /\ alast = NoAnalysis
    /\ mlast = NoMonitorCall
    /\ tpc = NoRequest
    /\ tq = NoRequest
    /\ tnow = NoRequest
    /\ invoked = <<>>
    /\ messages \in {Conversation(c) : c \in Conversations}
    /\ max_messages \in -1..MaxBudget
    /\ pruned = NotPruned
    /\ InitParams({0}, {<<>>})
    /\ InitSingleton

NextPrune == prune_conversation_context

SpecPrune == InitPrune /\ [][NextPrune]_vars

(***************************************************************************)
(* TokenOptimizationPipeline.optimize_model_params, lines 840-860          *)
(*                                                                         *)
(* The score is counted in tenths, temperature and top_p in thousandths.   *)
(***************************************************************************)
MaxParamScore == 20

(* The scores passed: from -1.0 to MaxParamScore tenths *)
ParamScores == (0 - 10)..MaxParamScore

Ollama == <<"o", "l", "l", "a", "m", "a">>
Providers == {Ollama, <<"O", "l", "l", "a", "m", "a">>, <<"o", "p", "e", "n", "a", "i">>}

(* int(x) for x = num / den: the fraction cut toward 0 *)
int(num, den) == IF num >= 0 THEN num \div den ELSE 0 - ((0 - num) \div den)

(* Line 857 *)
num_predict(score) == int(2560 + score * 768, 10)

(* Lines 850-860 *)
optimize_model_params_result(score, kind) ==
    IF lower(kind) = Ollama
    THEN [temperature |-> Max(0, Min(700, score * 70)),
          top_p |-> Max(500, Min(950, 500 + score * 45)),
          num_predict |-> num_predict(score)]
    ELSE [temperature |-> 0, num_predict |-> 512]

optimize_model_params ==
    /\ ~params.done
    /\ params' = [done |-> TRUE,
                  result |-> optimize_model_params_result(query_complexity, provider)]
    /\ UNCHANGED <<now, poolVars, cacheVars, optVars, routerVars, analysisVars,
                   requestVars, pruneVars, query_complexity, provider, singletonVars>>

InitParameters ==
    /\ now = 0
    /\ InitPool
    /\ InitCache({"ComplexityCache"})
    /\ InitOptimizer
    /\ InitRouter({EmptyLog}, {DefaultThreshold})
    /\ alast = NoAnalysis
    /\ mlast = NoMonitorCall
    /\ tpc = NoRequest
    /\ tq = NoRequest
    /\ tnow = NoRequest
    /\ invoked = <<>>
    /\ messages = <<>>
    /\ max_messages = 0
    /\ pruned = NotPruned
    /\ InitParams(ParamScores, Providers)
    /\ InitSingleton

NextParameters == optimize_model_params

SpecParameters == InitParameters /\ [][NextParameters]_vars

(***************************************************************************)
(* Claims about the calibrator                                             *)
(***************************************************************************)

(* A suggest_threshold call is made in this step *)
CalibrationStep == clast'.n # clast.n

(* Both backends the router chooses between have enough joined ratings *)
BackendsHaveSamples ==
    /\ Len(ratings(metrics, ConfigModel)) >= MinSamples
    /\ Len(ratings(metrics, ConfigComplexModel)) >= MinSamples

(* The same under the names suggest_threshold uses *)
GatePasses ==
    /\ Len(ratings(metrics, CalibratorSimpleModel)) >= MinSamples
    /\ Len(ratings(metrics, CalibratorComplexModel)) >= MinSamples

(* mean(complex ratings) > mean(simple ratings), by cross-multiplication *)
AccurateRatedHigher ==
    Sum(ratings(metrics, CalibratorComplexModel))
            * Len(ratings(metrics, CalibratorSimpleModel))
        > Sum(ratings(metrics, CalibratorSimpleModel))
            * Len(ratings(metrics, CalibratorComplexModel))

(* C13: from any starting threshold and any recorded selections and        *)
(* feedback, one suggest_threshold call returns a threshold at most 0.05   *)
(* from the starting threshold and within [0.1, 0.5].                      *)
C13_CalibratorBound ==
    [][CalibrationStep =>
          /\ Abs(clast'.returned - current_threshold) <= Hundredths(5)
          /\ Hundredths(10) <= clast'.returned
          /\ clast'.returned <= Hundredths(50)]_vars

(* The same for starting thresholds within [0.1, 0.5] *)
C13_BoundFromInsideRange ==
    [][(/\ CalibrationStep
        /\ Hundredths(10) <= current_threshold
        /\ current_threshold <= Hundredths(50)) =>
          /\ Abs(clast'.returned - current_threshold) <= Hundredths(5)
          /\ Hundredths(10) <= clast'.returned
          /\ clast'.returned <= Hundredths(50)]_vars

(* C15: when the gate passes and the accurate backend's mean rating        *)
(* exceeds the fast backend's, one calibration does not raise the          *)
(* threshold and lowers it by at most 0.05; when it does not exceed it,    *)
(* one calibration does not lower the threshold.                           *)
C15_DirectionFollowsRatings ==
    [][CalibrationStep /\ GatePasses =>
          IF AccurateRatedHigher
          THEN /\ clast'.returned <= current_threshold
               /\ current_threshold - clast'.returned <= Hundredths(5)
          ELSE clast'.returned >= current_threshold]_vars

(* The same for starting thresholds within [0.1, 0.5] *)
C15_DirectionFromInsideRange ==
    [][(/\ CalibrationStep /\ GatePasses
        /\ Hundredths(10) <= current_threshold
        /\ current_threshold <= Hundredths(50)) =>
          IF AccurateRatedHigher
          THEN /\ clast'.returned <= current_threshold
               /\ current_threshold - clast'.returned <= Hundredths(5)
          ELSE clast'.returned >= current_threshold]_vars

(* C16: suggest_threshold appends exactly one CalibrationEvent (old and    *)
(* new threshold, average rating and sample size per backend) when both    *)
(* backends have at least min_samples joined ratings, moved or not, and    *)
(* otherwise returns the current threshold and leaves it and the history   *)
(* as they were.                                                           *)
C16_EventIffSamples ==
    [][CalibrationStep =>
          IF BackendsHaveSamples
          THEN /\ Len(calibration_history') = Len(calibration_history) + 1
               /\ Front(calibration_history') = calibration_history
               /\ LET e == Last(calibration_history') IN
                  /\ e.old_threshold = current_threshold
                  /\ e.new_threshold = current_threshold'
                  /\ e.sample_sizes =
                        [simple |-> Len(ratings(metrics, ConfigModel)),
                         complex |-> Len(ratings(metrics, ConfigComplexModel))]
                  /\ e.simple_avg_rating =
                        <<Sum(ratings(metrics, ConfigModel)),
                          Len(ratings(metrics, ConfigModel))>>
                  /\ e.complex_avg_rating =
                        <<Sum(ratings(metrics, ConfigComplexModel)),
                          Len(ratings(metrics, ConfigComplexModel))>>
          ELSE /\ clast'.returned = current_threshold
               /\ current_threshold' = current_threshold
               /\ calibration_history' = calibration_history]_vars

(* The same with the backends looked up under suggest_threshold's names *)
C16_EventIffGate ==
    [][CalibrationStep =>
          IF GatePasses
          THEN /\ Len(calibration_history') = Len(calibration_history) + 1
               /\ Front(calibration_history') = calibration_history
               /\ LET e == Last(calibration_history') IN
                  /\ e.old_threshold = current_threshold
                  /\ e.new_threshold = current_threshold'
                  /\ e.sample_sizes =
                        [simple |-> Len(ratings(metrics, CalibratorSimpleModel)),
                         complex |-> Len(ratings(metrics, CalibratorComplexModel))]
          ELSE /\ clast'.returned = current_threshold
               /\ current_threshold' = current_threshold
               /\ calibration_history' = calibration_history]_vars

(* C17: of two consecutive calibration calls with no selection or feedback *)
(* recorded between them, the second leaves the threshold where the first  *)
(* left it.                                                                *)
C17_IdempotentWithoutNewData ==
    [][(/\ CalibrationStep
        /\ clast.n >= 1
        /\ clast.records = Len(metrics.selections) + Len(metrics.feedback)) =>
          /\ clast'.returned = clast.returned
          /\ current_threshold' = current_threshold]_vars

(* The same while the gate does not pass *)
C17_IdempotentBelowGate ==
    [][(/\ CalibrationStep
        /\ clast.n >= 1
        /\ ~GatePasses
        /\ clast.records = Len(metrics.selections) + Len(metrics.feedback)) =>
          /\ clast'.returned = clast.returned
          /\ current_threshold' = current_threshold]_vars

(***************************************************************************)
(* Claims about the router                                                 *)
(***************************************************************************)
IsPrefix(s, t) == Len(s) <= Len(t) /\ SubSeq(t, 1, Len(s)) = s

DecisionStep == rpc = "idle" /\ rpc' = "decided"

RecordStep == rpc = "decided" /\ rpc' = "idle"

(* C14: in every reachable state the router's routing threshold lies in    *)
(* [0.1, 0.5], whatever threshold was passed at construction and however   *)
(* many calibrations have run.                                             *)
C14_RouterThresholdInRange ==
    MinThreshold <= threshold /\ threshold <= MaxThreshold

(* The part that holds: no step takes the threshold out of the range. *)
C14_RangeKept ==
    [][C14_RouterThresholdInRange => C14_RouterThresholdInRange']_vars

(* C18: the persisted log only grows: what the file holds of selections    *)
(* and of feedback is, after every step, an extension of what it held      *)
(* before, also when the records come through different monitors opened    *)
(* on the same file.                                                       *)
C18_PersistedLogOnlyGrows ==
    [][/\ IsPrefix(log_file.selections, log_file'.selections)
       /\ IsPrefix(log_file.feedback, log_file'.feedback)]_vars

(* The part that holds while one router writes the selections: the file's *)
(* selections are never cut back.                                          *)
C18_PersistedSelectionsOnlyGrow ==
    [][IsPrefix(log_file.selections, log_file'.selections)]_vars

(* C19: a call selects the accurate backend exactly when the score of its  *)
(* query is at least the threshold in force after the calibration of that  *)
(* call, and the fast backend otherwise; for a fixed score, a lower        *)
(* threshold can only move the decision from fast to accurate.             *)
C19_DecisionFollowsThreshold ==
    /\ [][DecisionStep =>
            /\ rscore' = overall_score(rquery')
            /\ rmodel' \in {ConfigModel, ConfigComplexModel}
            /\ rmodel' = ConfigComplexModel <=> rscore' >= threshold'
            /\ rmodel' = ConfigModel <=> rscore' < threshold']_vars
    /\ [][RecordStep =>
            /\ rlast'.threshold = threshold
            /\ rlast'.model = ConfigComplexModel <=> rlast'.score >= threshold]_vars
    /\ [](\A q \in RouterQueries : \A t \in StartThresholds \cup Complexities :
            (threshold <= t /\ use_complex_model(overall_score(q), t))
                => use_complex_model(overall_score(q), threshold))

(* A call whose calibration raised the threshold from 0.25 above the score *)
(* of its query, which went to the fast backend.                           *)
C19_Witness ==
    /\ rlast.n > 0
    /\ rlast.calibrated
    /\ rlast.threshold = DefaultThreshold + max_change
    /\ rlast.score >= DefaultThreshold
    /\ rlast.score < rlast.threshold
    /\ rlast.model = ConfigModel

(* A call whose score equals the threshold its calibration left, which     *)
(* went to the accurate backend.                                           *)
C19_BoundaryWitness ==
    /\ rlast.n > 0
    /\ rlast.calibrated
    /\ rlast.threshold \notin StartThresholds
    /\ rlast.score = rlast.threshold
    /\ rlast.model = ConfigComplexModel

(* C20: every get_appropriate_model call appends exactly one record to the *)
(* monitor's selections, after the decision and before it returns: the     *)
(* query, its score and the backend decided; the records already there     *)
(* are never changed or removed.                                           *)
C20_OneSelectionPerCall ==
    /\ [][DecisionStep => metrics'.selections = metrics.selections]_vars
    /\ [][RecordStep =>
            /\ Len(metrics'.selections) = Len(metrics.selections) + 1
            /\ SubSeq(metrics'.selections, 1, Len(metrics.selections))
                   = metrics.selections
            /\ LET r == metrics'.selections[Len(metrics'.selections)] IN
               /\ r.query = rquery
               /\ r.complexity = rscore
               /\ r.selected_model = rmodel
               /\ r.selected_model = rlast'.model]_vars
    /\ [][IsPrefix(metrics.selections, metrics'.selections)]_vars
    /\ [][(~DecisionStep /\ ~RecordStep) => metrics'.selections = metrics.selections]_vars
    /\ [](rpc = "decided" => Len(metrics.selections) = rsize)

(* Two calls have returned and the monitor holds a record for each after   *)
(* the ones it loaded.                                                     *)
C20_Witness ==
    /\ rpc = "idle"
    /\ rlast.n = 2
    /\ Len(metrics.selections) >= 2
    /\ metrics.selections[Len(metrics.selections)].query = rlast.query
    /\ metrics.selections[Len(metrics.selections)].selected_model = rlast.model
    /\ metrics.selections[Len(metrics.selections) - 1].selected_model
          \in {ConfigModel, ConfigComplexModel}

(***************************************************************************)
(* Claims about requests that share one router                             *)
(***************************************************************************)
(* C21: the router invokes the calibrator only when at least one           *)
(* calibration interval has passed since its construction or its last      *)
(* calibration, and at most once per interval, also when several requests  *)
(* call get_appropriate_model on the same router at the same time.         *)
C21_CalibrationOncePerInterval ==
    \A i \in DOMAIN invoked :
        /\ invoked[i] >= CalibrationInterval
        /\ i > 1 => invoked[i] - invoked[i - 1] >= CalibrationInterval

(* The part that holds: a request sets out to calibrate only when the test *)
(* of line 594 passed for the clock it read.                               *)
C21_CalibratesOnlyWhenTestPassed ==
    [][\A t \in Callers :
          (tpc[t] # "calibrating" /\ tpc'[t] = "calibrating")
              => tnow'[t] - last_calibration >= CalibrationInterval]_vars

(***************************************************************************)
(* Claims about the monitor                                                *)
(***************************************************************************)
(* The selection a feedback record is joined to: the last one in the list  *)
(* with exactly the same text, 0 when there is none.                       *)
JoinedSelection(f) ==
    LET s == metrics.selections
        same == {j \in DOMAIN s : s[j].query = f.query}
    IN  IF same = {} THEN 0 ELSE CHOOSE j \in same : \A k \in same : k <= j

JoinedTo(model) ==
    SelectSeq(metrics.feedback,
              LAMBDA f : /\ JoinedSelection(f) # 0
                         /\ metrics.selections[JoinedSelection(f)].selected_model = model)

CountFor(result, model) == IF model \in DOMAIN result THEN result[model].count ELSE 0

RECURSIVE SumOver(_, _)
SumOver(f, S) ==
    IF S = {} THEN 0 ELSE LET x == CHOOSE y \in S : TRUE IN f[x] + SumOver(f, S \ {x})

(* C22: get_model_performance_metrics counts each feedback record for the  *)
(* backend of the most recent selection with exactly the same text, a      *)
(* feedback record matching no selection stays stored and counts for none, *)
(* and the counts of all backends add up to the number of feedback records *)
(* that match a selection.                                                 *)
C22_FeedbackJoinedToLatestSelection ==
    mlast.op = "get_model_performance_metrics" =>
        LET result == mlast.result IN
        /\ \A model \in MonitorModels :
              /\ CountFor(result, model) = Len(JoinedTo(model))
              /\ model \in DOMAIN result =>
                    /\ result[model].count > 0
                    /\ Len(result[model].ratings) = result[model].count
                    /\ \A i \in 1..result[model].count :
                          result[model].ratings[i] = JoinedTo(model)[i].rating
        /\ DOMAIN result \subseteq MonitorModels
        /\ SumOver([model \in DOMAIN result |-> result[model].count], DOMAIN result)
              = Cardinality({i \in DOMAIN metrics.feedback :
                               JoinedSelection(metrics.feedback[i]) # 0})

(* The metrics were asked for with a text selected twice, for different    *)
(* backends, and rated, and with a rated text that differs from it in case *)
(* only and was never selected.                                            *)
C22_Witness ==
    /\ mlast.op = "get_model_performance_metrics"
    /\ Len(metrics.selections) = 2
    /\ metrics.selections[1].query = metrics.selections[2].query
    /\ metrics.selections[1].selected_model # metrics.selections[2].selected_model
    /\ Len(metrics.feedback) = 2
    /\ JoinedSelection(metrics.feedback[1]) = 2
    /\ JoinedSelection(metrics.feedback[2]) = 0
    /\ lower(metrics.feedback[2].query) = lower(metrics.feedback[1].query)
    /\ CountFor(mlast.result, metrics.selections[2].selected_model) = 1
    /\ CountFor(mlast.result, metrics.selections[1].selected_model) = 0

RecordCalls == {"record_selection", "record_feedback"}

(* C23: when record_selection or record_feedback returns the record is in  *)
(* the in-memory metrics and, unless the write failed, the file holds      *)
(* exactly the in-memory lists; when the write fails the call still        *)
(* returns with the record in memory and the failure is raised to the      *)
(* caller.                                                                 *)
C23_RecordedWrittenOrSurfaced ==
    mlast.op \in RecordCalls =>
        /\ mlast.op = "record_selection" =>
              /\ metrics.selections # <<>>
              /\ Last(metrics.selections).query = mlast.arg[1]
        /\ mlast.op = "record_feedback" =>
              /\ metrics.feedback # <<>>
              /\ Last(metrics.feedback).query = mlast.arg[1]
        /\ mlast.written => log_file = metrics
        /\ ~mlast.written => mlast.raised

(* The part that holds: the record is kept in memory and a write that      *)
(* succeeds leaves the file equal to the in-memory lists.                  *)
C23_RecordedAndWritten ==
    mlast.op \in RecordCalls =>
        /\ mlast.op = "record_selection" =>
              /\ metrics.selections # <<>>
              /\ Last(metrics.selections).query = mlast.arg[1]
        /\ mlast.op = "record_feedback" =>
              /\ metrics.feedback # <<>>
              /\ Last(metrics.feedback).query = mlast.arg[1]
        /\ mlast.written => log_file = metrics

(* C24: every stored feedback record has a rating in 1..5, the rating r    *)
(* passed is stored as min(5, max(1, r)), and no rating makes the call     *)
(* fail.                                                                   *)
C24_RatingClamped ==
    /\ \A i \in DOMAIN metrics.feedback : metrics.feedback[i].rating \in 1..5
    /\ mlast.op = "record_feedback" =>
          /\ ~mlast.raised
          /\ LET r == mlast.arg[2] IN
             Last(metrics.feedback).rating
                = (IF r < 1 THEN 1 ELSE IF r > 5 THEN 5 ELSE r)
    /\ (rpc = "idle" /\ Len(metrics.feedback) < MaxFeedback) =>
          \A q \in MonitorQueries : \A r \in MonitorRatings :
              ENABLED PerformanceMonitor_record_feedback(q, r)

(* Ratings below and above the range were passed and are stored as 1 and 5. *)
C24_Witness ==
    /\ Len(metrics.feedback) = 2
    /\ metrics.feedback[1].rating = 1
    /\ metrics.feedback[2].rating = 5
    /\ mlast.op = "record_feedback"
    /\ mlast.arg[2] > 5

(***************************************************************************)
(* Claims about the analyzer                                               *)
(***************************************************************************)
DimensionNames == {"length", "patterns", "sql_complexity", "cognitive_load"}

(* C25: for every query analyze_complexity returns an overall score in     *)
(* [0, 1] and each of the four dimension scores in [0, 1], with or without *)
(* a domain modifier applied.                                              *)
C25_ScoresInUnitRange ==
    alast.n > 0 =>
        /\ 0 <= alast.result[1] /\ alast.result[1] <= One
        /\ DOMAIN alast.result[2] = DimensionNames
        /\ \A d \in DimensionNames :
              /\ alast.result[2][d][2] > 0
              /\ 0 <= alast.result[2][d][1]
              /\ alast.result[2][d][1] <= alast.result[2][d][2]

(* A lookup was analysed afresh: its domain modifier is negative and its   *)
(* score was kept at 0.                                                    *)
C25_Witness ==
    /\ alast.n > 0
    /\ ~alast.hit
    /\ detect_domain(alast.query) = "simple_lookup"
    /\ alast.result[1] = 0
    /\ alast.result[2]["length"][1] > 0

(* A text of 51 tokens was analysed: two dimensions are at 1. *)
C25_SaturatedWitness ==
    /\ alast.n > 0
    /\ alast.query = LongQuery
    /\ alast.result[2]["length"] = <<50, 50>>
    /\ alast.result[2]["cognitive_load"] = <<20, 20>>

(* C26: analyze_complexity is deterministic: every call returns the score  *)
(* and the dimensions a computation from the query's text gives, whether   *)
(* computed in the call or served from the ComplexityCache, also when the  *)
(* entry was stored for a query that differs in case or in the whitespace  *)
(* around it and so has the same key.                                      *)
C26_AnalysisDeterministic ==
    /\ alast.n > 0 =>
          alast.result = <<overall_score(alast.query), dimensions(alast.query)>>
    /\ \A i \in DOMAIN cache :
          \A q \in AnalyzedQueries :
              ComplexityCache_generate_key(q) = cache[i].key
                  => cache[i].value = <<overall_score(q), dimensions(q)>>

(* The second call was served from the cache with the entry the first call *)
(* stored for a different text, one with a set operation in capitals.      *)
C26_Witness ==
    /\ alast.n = 2
    /\ alast.hit
    /\ alast.before # alast.query
    /\ ComplexityCache_generate_key(alast.before)
          = ComplexityCache_generate_key(alast.query)
    /\ alast.result[2]["sql_complexity"][1] > 0

BlankQueries == {<<>>, <<" ", " ">>, <<"\t", "\n">>}

(* C27: for the empty string and for a query of whitespace only,           *)
(* analyze_complexity fails with no error and returns the overall score 0  *)
(* and 0 in all four dimensions.                                           *)
C27_BlankQueriesScoreZero ==
    /\ (alast.n > 0 /\ alast.query \in BlankQueries) =>
          /\ alast.result[1] = 0
          /\ \A d \in DimensionNames : alast.result[2][d][1] = 0
    /\ (rpc = "idle" /\ alast.n < MaxAnalyses) =>
          \A q \in BlankQueries :
              ENABLED DynamicComplexityRouter_analyze_complexity(q)

(* A tab and a newline were analysed afresh. *)
C27_Witness ==
    /\ alast.n > 0
    /\ ~alast.hit
    /\ alast.query = <<"\t", "\n">>
    /\ alast.result[1] = 0

(* C28: "SELECT * FROM orders" gets an overall score between 0.0 and 0.1   *)
(* and goes to the fast backend under the default threshold 0.25.          *)
C28_SelectScenario ==
    (rlast.n > 0 /\ rlast.query = SelectAllFromOrders) =>
        /\ 0 <= rlast.score /\ rlast.score <= Hundredths(10)
        /\ rlast.threshold = DefaultThreshold
        /\ rlast.model = ConfigModel

(* The part that holds: the query scores below the default threshold and   *)
(* goes to the fast backend.                                               *)
C28_SelectRoutedFast ==
    (rlast.n > 0 /\ rlast.query = SelectAllFromOrders) =>
        /\ rlast.score < DefaultThreshold
        /\ rlast.threshold = DefaultThreshold
        /\ rlast.model = ConfigModel

(* C29: for the trend query the pattern dimension and the sql_complexity   *)
(* dimension are both at 1.0, the overall score is above 0.25 and the      *)
(* query goes to the accurate backend under the default threshold.         *)
C29_TrendScenario ==
    (rlast.n > 0 /\ rlast.query = TrendQuery) =>
        /\ dimensions(TrendQuery)["patterns"][1] = dimensions(TrendQuery)["patterns"][2]
        /\ dimensions(TrendQuery)["sql_complexity"][1]
              = dimensions(TrendQuery)["sql_complexity"][2]
        /\ rlast.score > DefaultThreshold
        /\ rlast.threshold = DefaultThreshold
        /\ rlast.model = ConfigComplexModel

(* The part that holds: the query scores above the default threshold and   *)
(* goes to the accurate backend.                                           *)
C29_TrendRoutedAccurate ==
    (rlast.n > 0 /\ rlast.query = TrendQuery) =>
        /\ rlast.score > DefaultThreshold
        /\ rlast.threshold = DefaultThreshold
        /\ rlast.model = ConfigComplexModel

(***************************************************************************)
(* Claims about prune_conversation_context                                 *)
(***************************************************************************)
(* C30: prune_conversation_context returns the list it was passed when the *)
(* number of non-system messages is at most max_messages, and in every     *)
(* case the result holds every system message of the list and the most     *)
(* recent non-system message.                                              *)
C30_PruneKeepsSystemAndLast ==
    pruned.done =>
        LET ns == non_system_messages(messages) IN
        /\ Len(ns) <= max_messages => pruned.result = messages
        /\ \A i \in DOMAIN messages :
              messages[i].type = "system" => messages[i] \in Range(pruned.result)
        /\ ns # <<>> => ns[Len(ns)] \in Range(pruned.result)

(* A list over the budget was pruned: a message was dropped, and a system  *)
(* message that stood behind a non-system message is in the result.        *)
C30_Witness ==
    /\ pruned.done
    /\ max_messages >= 1
    /\ Len(non_system_messages(messages)) > max_messages
    /\ Len(pruned.result) < Len(messages)
    /\ \E i, j \in DOMAIN messages :
          i < j /\ messages[i].type # "system" /\ messages[j].type = "system"

(* A list at the budget was returned as passed. *)
C30_WithinBudgetWitness ==
    /\ pruned.done
    /\ max_messages >= 1
    /\ Len(non_system_messages(messages)) = max_messages
    /\ pruned.result = messages
    /\ \E i, j \in DOMAIN messages :
          i < j /\ messages[i].type # "system" /\ messages[j].type = "system"

(* The positions in the list passed of the messages of the result *)
ResultIds == [i \in DOMAIN pruned.result |-> pruned.result[i].id]

(* C31: the result of prune_conversation_context is a subsequence of the   *)
(* list passed: the kept messages, system and non-system together, stand   *)
(* in the order they had in it, wherever its system messages stand. Taken  *)
(* for budgets of at least 1.                                              *)
C31_ResultIsSubsequence ==
    (pruned.done /\ max_messages >= 1) =>
        /\ \A i \in DOMAIN pruned.result :
              pruned.result[i] = messages[ResultIds[i]]
        /\ \A i, j \in DOMAIN pruned.result : i < j => ResultIds[i] < ResultIds[j]

(* The part that holds: the kept system messages keep their order among    *)
(* themselves, and so do the kept non-system messages.                     *)
C31_OrderKeptWithinEachKind ==
    pruned.done =>
        /\ \A i \in DOMAIN pruned.result :
              pruned.result[i] = messages[ResultIds[i]]
        /\ \A i, j \in DOMAIN pruned.result :
              (i < j /\ pruned.result[i].type = pruned.result[j].type)
                  => ResultIds[i] < ResultIds[j]

(* The non-system messages of the result, and whether the i-th non-system  *)
(* message of the list passed is among them                                *)
KeptNonSystem == non_system_messages(pruned.result)
IsKept(msg) == msg \in Range(KeptNonSystem)

(* Whether the earlier message at i scores at least as high as the one at j *)
ScoresAtLeast(ns, i, j) ==
    final_score(ns, i)[1] * final_score(ns, j)[2]
        >= final_score(ns, j)[1] * final_score(ns, i)[2]

(* The most recent non-system message is kept, and no dropped earlier      *)
(* message scores higher than a kept one.                                  *)
KeepsLastAndTopScoring ==
    LET ns == non_system_messages(messages) IN
    /\ IsKept(ns[Len(ns)])
    /\ \A i, j \in 1..(Len(ns) - 1) :
          (IsKept(ns[i]) /\ ~IsKept(ns[j])) => ScoresAtLeast(ns, i, j)

(* C32: when there are more non-system messages than max_messages, the     *)
(* result holds the most recent one and the max_messages - 1 highest       *)
(* scoring earlier ones: exactly max_messages non-system messages when     *)
(* max_messages >= 1, and at most max(max_messages, 1) for max_messages    *)
(* >= 0.                                                                   *)
C32_KeepsBudgetedTopScoring ==
    (/\ pruned.done
     /\ max_messages >= 0
     /\ Len(non_system_messages(messages)) > max_messages) =>
        /\ KeepsLastAndTopScoring
        /\ max_messages >= 1 => Len(KeptNonSystem) = max_messages
        /\ Len(KeptNonSystem) <= Max(max_messages, 1)

(* The part that holds: the claim for a budget of at least 1. *)
C32_KeepsBudgetedTopScoringFromOne ==
    (/\ pruned.done
     /\ max_messages >= 1
     /\ Len(non_system_messages(messages)) > max_messages) =>
        /\ KeepsLastAndTopScoring
        /\ Len(KeptNonSystem) = max_messages

(***************************************************************************)
(* Claims about optimize_model_params                                      *)
(***************************************************************************)
(* The result for a lower score is nowhere above the result returned *)
NonDecreasingIn(field) ==
    \A lower_score \in ParamScores :
        lower_score <= query_complexity =>
            optimize_model_params_result(lower_score, provider)[field]
                <= params.result[field]

(* C33: for every score, also outside [0, 1], the kind "ollama" gets a     *)
(* temperature in [0, 0.7], a top_p in [0.5, 0.95] and a num_predict in    *)
(* [256, 1024], each non-decreasing in the score; any other kind gets the  *)
(* temperature 0.0 and the num_predict 512 whatever the score.             *)
C33_ParamsInRange ==
    params.done =>
        IF provider = Ollama
        THEN /\ 0 <= params.result.temperature /\ params.result.temperature <= 700
             /\ 500 <= params.result.top_p /\ params.result.top_p <= 950
             /\ 256 <= params.result.num_predict /\ params.result.num_predict <= 1024
             /\ NonDecreasingIn("temperature")
             /\ NonDecreasingIn("top_p")
             /\ NonDecreasingIn("num_predict")
        ELSE lower(provider) # Ollama
                => params.result = [temperature |-> 0, num_predict |-> 512]

(* The part that holds: everything but the range of num_predict. *)
C33_ParamsInRangeButBudget ==
    params.done =>
        IF lower(provider) = Ollama
        THEN /\ 0 <= params.result.temperature /\ params.result.temperature <= 700
             /\ 500 <= params.result.top_p /\ params.result.top_p <= 950
             /\ NonDecreasingIn("temperature")
             /\ NonDecreasingIn("top_p")
             /\ NonDecreasingIn("num_predict")
             /\ (0 <= query_complexity /\ query_complexity <= 10)
                   => (256 <= params.result.num_predict
                       /\ params.result.num_predict <= 1024)
        ELSE params.result = [temperature |-> 0, num_predict |-> 512]

(***************************************************************************)
(* Claims about the path from feedback to calibration                      *)
(***************************************************************************)
(* The log file holds a selection of each backend of the router and at     *)
(* least min_samples ratings joined to each.                               *)
BothBackendsRated ==
    /\ \A model \in {ConfigModel, ConfigComplexModel} :
          \E i \in DOMAIN log_file.selections :
              log_file.selections[i].selected_model = model
    /\ Len(ratings(log_file, ConfigModel)) >= MinSamples
    /\ Len(ratings(log_file, ConfigComplexModel)) >= MinSamples

(* C34: once the router has recorded selections of both its backends and   *)
(* at least min_samples ratings have come in through record_query_feedback *)
(* for queries routed to each, the next calibration that falls due passes  *)
(* the minimum-sample gate and computes the mean rating of each backend    *)
(* from those records.                                                     *)
C34_FeedbackReachesCalibration ==
    [][(CalibrationStep /\ BothBackendsRated) =>
          /\ Len(calibration_history') = Len(calibration_history) + 1
          /\ LET e == Last(calibration_history') IN
             /\ e.simple_avg_rating =
                   <<Sum(ratings(log_file, ConfigModel)),
                     Len(ratings(log_file, ConfigModel))>>
             /\ e.complex_avg_rating =
                   <<Sum(ratings(log_file, ConfigComplexModel)),
                     Len(ratings(log_file, ConfigComplexModel))>>]_vars

(* What happens instead: a calibration that falls due with both backends   *)
(* rated leaves the threshold and the history as they were.                *)
C34_RatedBackendsLeaveThreshold ==
    [][(CalibrationStep /\ BothBackendsRated) =>
          /\ calibration_history' = calibration_history
          /\ current_threshold' = current_threshold
          /\ threshold' = threshold]_vars

(***************************************************************************)
(* Claims about the overall score and the cognitive load                   *)
(***************************************************************************)
(* The share of each domain's expressions found in each analysed text, as *)
(* <<found, all>>                                                          *)
MatchShares ==
    {<<q, [dom \in DOMAIN domain_patterns |->
             <<matches_ignorecase(domain_patterns[dom], q),
               Len(domain_patterns[dom])>>]>> : q \in AnalyzedQueries}

(* The domains whose share in sh is above 0.3 and not below any other share *)
TopShares(sh) ==
    {dom \in DOMAIN sh :
        /\ 10 * sh[dom][1] > 3 * sh[dom][2]
        /\ \A other \in DOMAIN sh :
              sh[other][1] * sh[dom][2] <= sh[dom][1] * sh[other][2]}

TopDomains(text) == TopShares((CHOOSE p \in MatchShares : p[1] = text)[2])

(* 0.15 * length + 0.45 * patterns + 0.30 * sql_complexity                 *)
(* + 0.10 * cognitive_load of the dimensions d                             *)
WeightedSum(d) ==
    (2550 * d["length"][1]) \div d["length"][2]
      + (7650 * d["patterns"][1]) \div d["patterns"][2]
      + (5100 * d["sql_complexity"][1]) \div d["sql_complexity"][2]
      + (1700 * d["cognitive_load"][1]) \div d["cognitive_load"][2]

(* C35: the overall score is the weighted sum of the four dimensions plus  *)
(* the modifier of the detected domain (the one with the highest share of  *)
(* expressions found, above 0.3; no modifier when there is none), kept in  *)
(* [0, 1]; the dimensions are those of the text, whatever the modifier.    *)
C35_OverallIsClampedWeightedSum ==
    alast.n > 0 =>
        /\ alast.result[2] = dimensions(alast.query)
        /\ IF TopDomains(alast.query) = {}
           THEN alast.result[1] = Min(Max(WeightedSum(alast.result[2]), 0), One)
           ELSE \E dom \in TopDomains(alast.query) :
                   alast.result[1] =
                      Min(Max(WeightedSum(alast.result[2]) + domain_modifiers[dom], 0),
                          One)

(* A text of the sql domain was analysed afresh: its score is the weighted *)
(* sum raised by 0.15, inside (0, 1).                                      *)
C35_Witness ==
    /\ alast.n > 0
    /\ ~alast.hit
    /\ TopDomains(alast.query) = {"sql"}
    /\ alast.result[1] = WeightedSum(alast.result[2]) + Hundredths(15)
    /\ alast.result[1] < One

(* A lookup was analysed: the modifier took the sum below 0 and the score  *)
(* is 0.                                                                   *)
C35_ClampedWitness ==
    /\ alast.n > 0
    /\ TopDomains(alast.query) = {"simple_lookup"}
    /\ WeightedSum(alast.result[2]) - Hundredths(5) < 0
    /\ alast.result[1] = 0

(* The pieces of a text between . ! ? that hold a word *)
NonEmptySentences(text) ==
    {k \in DOMAIN sentences(text) : strip(sentences(text)[k]) # <<>>}

(* The words of the pieces of a text *)
SentenceWords(text) ==
    Sum([k \in DOMAIN sentences(text) |-> Len(split(sentences(text)[k]))])

(* C36: cognitive_load is min(A / 20, 1) where A is the average number of  *)
(* words per sentence over the non-empty pieces between . ! ?, so that one *)
(* sentence of n words ending with a period has A = n.                     *)
C36_CognitiveLoadAveragesSentences ==
    alast.n > 0 =>
        LET ne == Max(Cardinality(NonEmptySentences(alast.query)), 1)
            cl == alast.result[2]["cognitive_load"]
        IN  cl[1] * 20 * ne = Min(SentenceWords(alast.query), 20 * ne) * cl[2]

(* cognitive_load is min(A / 20, 1) where A is the number of words divided *)
(* by the number of all pieces between . ! ?, the empty ones included.     *)
C36_CognitiveLoadAveragesAllPieces ==
    alast.n > 0 =>
        LET np == Max(Len(sentences(alast.query)), 1)
            cl == alast.result[2]["cognitive_load"]
        IN  cl[1] * 20 * np = Min(SentenceWords(alast.query), 20 * np) * cl[2]

(***************************************************************************)
(* Claims about repeated calibration                                       *)
(***************************************************************************)
(* The percentile suggest_threshold steps toward: the 75th of the fast     *)
(* backend's complexities when the accurate one is rated higher, else the  *)
(* 25th of the accurate backend's.                                         *)
TargetPercentile(m) ==
    LET sr == ratings(m, CalibratorSimpleModel)
        cr == ratings(m, CalibratorComplexModel)
        sc == complexities(m, CalibratorSimpleModel)
        cc == complexities(m, CalibratorComplexModel)
    IN  IF Sum(cr) * Len(sr) > Sum(sr) * Len(cr)
        THEN SortedAt(sc, Min((3 * Len(sc)) \div 4, Len(sc) - 1))
        ELSE SortedAt(cc, Min(Len(cc) \div 4, Len(cc) - 1))

ClampedTarget(m) == Max(Hundredths(10), Min(Hundredths(50), TargetPercentile(m)))

(* C37: with the monitor unchanged and enough samples of both backends,    *)
(* every suggest_threshold call that is not yet at the target percentile   *)
(* clamped to [0.1, 0.5] comes strictly closer to it, and every call made  *)
(* at it returns it again: a fixed point reached after finitely many calls.*)
C37_RepeatedCallsReachFixedPoint ==
    [][(clast'.n = clast.n + 1 /\ metrics' = metrics) =>
         /\ (current_threshold = ClampedTarget(metrics)) =>
               /\ current_threshold' = current_threshold
               /\ clast'.returned = current_threshold
         /\ (current_threshold # ClampedTarget(metrics)) =>
               Abs(current_threshold' - ClampedTarget(metrics))
                  < Abs(current_threshold - ClampedTarget(metrics))]_vars

(* The first call moved the threshold, a later call found it at the        *)
(* clamped target and returned it unchanged.                               *)
C37_Witness ==
    /\ clast.n >= 3
    /\ Len(calibration_history) = clast.n
    /\ calibration_history[1].old_threshold # calibration_history[1].new_threshold
    /\ calibration_history[clast.n].old_threshold = ClampedTarget(metrics)
    /\ calibration_history[clast.n].new_threshold = ClampedTarget(metrics)
    /\ current_threshold = ClampedTarget(metrics)
    /\ clast.returned = current_threshold

(* The percentile is 0.9, above the range: the calls stop at 0.5. *)
C37_ClampedWitness ==
    /\ clast.n >= 2
    /\ TargetPercentile(metrics) > Hundredths(50)
    /\ current_threshold = Hundredths(50)
    /\ calibration_history[clast.n].old_threshold = Hundredths(50)

(***************************************************************************)
(* Claims about releases of connections the caller does not hold           *)
(***************************************************************************)
(* The step that runs the body of thread t's return_connection call *)
ReleaseCompletes(t) == pc[t] = "rel" /\ pc'[t] = "idle"

(* Another caller got the connection t passes from get_connection and has  *)
(* not released it: t released it before, and it was handed out again.     *)
LoanedToAnother(t) ==
    \E u \in Threads \ {t} : pc[u] = "holding" /\ held[u] = arg[t]

(* C38: return_connection called with a connection its caller no longer    *)
(* holds (released before, and idle, closed by close_all or loaned to      *)
(* another caller since) leaves the idle list and the in-use set as they   *)
(* were.                                                                   *)
C38_StaleReleaseChangesNothing ==
    [][\A t \in Threads :
          (ReleaseCompletes(t) /\ (arg[t] \notin in_use \/ LoanedToAnother(t))) =>
              (pool' = pool /\ in_use' = in_use)]_vars

(* return_connection called with a connection that is idle or was closed   *)
(* by close_all leaves the idle list and the in-use set as they were.      *)
C38_ReleaseOfIdleOrClosedChangesNothing ==
    [][\A t \in Threads :
          (ReleaseCompletes(t) /\ arg[t] \notin in_use) =>
              (pool' = pool /\ in_use' = in_use)]_vars

(***************************************************************************)
(* Claims about the schema cache                                           *)
(***************************************************************************)
(* What the dictionary c holds for get_all_tables, and for                 *)
(* get_table_schema(name): the value stored, none when there is no entry   *)
StoredTables(c) ==
    IF AllTablesKey \in Keys(c) THEN Lookup(c, AllTablesKey).value ELSE NoVal

StoredSchema(c, name) ==
    IF name \in Keys(c) THEN Lookup(c, name).value ELSE NoVal

(* C39: the list of all tables and the schemas of the tables do not        *)
(* interfere, for every table name: a set_table_schema call leaves what    *)
(* get_all_tables finds as it was, and a set_all_tables call leaves what   *)
(* get_table_schema finds for any name as it was, so that each getter      *)
(* returns none or the latest value passed to its own setter.              *)
C39_SchemasAndTableListApart ==
    [][\A n \in TableNames :
          /\ \A v \in ColumnLists :
                SchemaCache_set_table_schema(n, v) =>
                    StoredTables(cache') = StoredTables(cache)
          /\ \A v \in TableLists :
                SchemaCache_set_all_tables(v) =>
                    StoredSchema(cache', n) = StoredSchema(cache, n)]_vars

(* The same for every table name other than "_tables". *)
C39_ApartForOtherNames ==
    [][\A n \in TableNames \ {AllTablesKey} :
          /\ \A v \in ColumnLists :
                SchemaCache_set_table_schema(n, v) =>
                    StoredTables(cache') = StoredTables(cache)
          /\ \A v \in TableLists :
                SchemaCache_set_all_tables(v) =>
                    StoredSchema(cache', n) = StoredSchema(cache, n)]_vars

(***************************************************************************)
(* Claims about the module's optimizer                                     *)
(***************************************************************************)
(* C40: however the first get_optimizer calls of several threads           *)
(* interleave, at most one DatabaseOptimizer is ever constructed, and      *)
(* every call that has returned returned that one instance.                *)
C40_OneOptimizer ==
    /\ instances <= 1
    /\ optimizer \in {None, 1}
    /\ \A t \in Threads :
          gcalls[t] > 0 => (instances = 1 /\ gret[t] = 1 /\ gret[t] = optimizer)

(* Every thread found _optimizer unset at its first test, all of them went *)
(* through the lock, and all their calls have returned.                    *)
C40_Witness ==
    /\ contended = Threads
    /\ \A t \in Threads : gcalls[t] >= 1 /\ gpc[t] = "idle"
    /\ instances = 1

====
